---- MODULE Spec2Model ----
(***************************************************************************)
(* Model of src/detection/indicators.py: the bot-likelihood scorer         *)
(* calculate_bot_likelihood and the coordination detector                  *)
(* detect_coordination.                                                    *)
(*                                                                         *)
(* Conventions.                                                            *)
(*  - A Python float is a fixed-point integer in thousandths: 0.3 is       *)
(*    300, the cap 0.99 is 990.  Every constant of the code is a           *)
(*    multiple of 0.05 and every weight a multiple of 0.1, so all sums and *)
(*    products of the code are exact in thousandths.                       *)
(*  - A Python str is a sequence of characters; a character is a          *)
(*    one-character string, or a token "U+XXXX" for a code point outside   *)
(*    ASCII (NonAscii gives its number).                                   *)
(*  - A Python dict is a function whose DOMAIN is the set of keys present. *)
(*  - An optional argument is <<>> for None and <<v>> for the value v.     *)
(***************************************************************************)
EXTENDS Integers, Sequences, FiniteSets, TLC

VARIABLES
    op,                  \* which function the call is of: "score" or "coord"
    pc,                  \* position inside the call
    attempt,             \* "first", or "again": the call repeats the first one
    prev,                \* <<>> or <<result of the previous call>>
    username,            \* calculate_bot_likelihood: argument username
    comment_text,        \* argument comment_text (optional)
    user_data,           \* argument user_data (optional)
    text_pattern_score,  \* local of calculate_bot_likelihood
    behavioral_score,    \* local
    profile_score,       \* local
    bot_indicators,      \* local
    ret,                 \* <<>> or <<[likelihood, indicators]>>: the value returned
    comments,            \* detect_coordination: argument comments
    comment_groups,      \* local (insertion-ordered dict: sequence of entries)
    networks,            \* <<>> or <<list returned>>
    frames,              \* concurrent workers: the frame of each worker's call
    local_objects,       \* the dicts the calls of the workers create (by cell)
    arg_objects,         \* the objects the workers pass as arguments (by name)
    monitored_accounts,  \* table monitored_accounts
    processed_posts,     \* table processed_posts
    detected_bots,       \* table detected_bots
    last_call,           \* the call of the database or review layer made last
    task_name,           \* the task dispatched: process_instagram_post or process_account
    task_pc,             \* position of the task
    task_platform,       \* local platform: <<>> or <<[is_authenticated |-> ...]>>
    task_args,           \* the arguments the task was dispatched with
    task_retries,        \* self.request.retries
    task_state,          \* the state of the task in the result backend
    task_comments,       \* local comments of the running attempt
    task_index,          \* position of the loop over comments
    task_exc,            \* <<>> or <<exception caught or raised>>
    task_result,         \* <<>> or <<value the task returned>>
    task_attempts        \* how each run of the task body ended, in order

scorer_vars == <<username, comment_text, user_data, text_pattern_score,
                 behavioral_score, profile_score, bot_indicators, ret>>
coord_vars == <<comments, comment_groups, networks>>
worker_vars == <<frames, local_objects, arg_objects>>
\* what lies outside the single call of the scorer or detector
db_vars == <<monitored_accounts, processed_posts, detected_bots, last_call>>
task_vars == <<task_name, task_pc, task_platform, task_args, task_retries, task_state, task_comments,
               task_index, task_exc, task_result, task_attempts>>
env_vars == <<worker_vars, db_vars, task_vars>>
\* the single call of the scorer or detector
call_vars == <<op, pc, attempt, prev, scorer_vars, coord_vars>>
\* what lies outside the concurrent workers
outside_workers == <<call_vars, db_vars, task_vars>>
\* what lies outside the database
outside_db == <<call_vars, worker_vars, task_vars>>
vars == <<call_vars, env_vars>>

-----------------------------------------------------------------------------
(* Bounds of the model *)

\* longest comment sequence given to detect_coordination
MaxComments == 5

-----------------------------------------------------------------------------
(* Python values *)

None == <<>>
Some(v) == <<v>>
IsNone(o) == o = <<>>
Val(o) == o[1]

Min(a, b) == IF a < b THEN a ELSE b

\* dict.get(k, default)
DictGet(d, k, default) == IF k \in DOMAIN d THEN d[k] ELSE default

\* mutant of DictSet: the dict is replaced by one holding the new key alone
DictSetAlone(d, k, v) == k :> v

\* d[k] = v
DictSet(d, k, v) == [x \in (DOMAIN d) \cup {k} |-> IF x = k THEN v ELSE d[x]]

\* bool(d) of a dict: an empty dict is false
DictTruthy(d) == DOMAIN d # {}

\* "if user_data:": None and {} are both false
UserDataGiven(ud) == ~IsNone(ud) /\ DictTruthy(Val(ud))

\* "if comment_text:": None and "" are both false
CommentGiven(ct) == ~IsNone(ct) /\ Len(Val(ct)) > 0

-----------------------------------------------------------------------------
(* Strings *)

Chars(s) == [i \in 1..Len(s) |-> SubSeq(s, i, i)]
Rep(c, n) == [i \in 1..n |-> c]

\* code points of the characters outside ASCII that the model uses
NonAscii == ("U+1F4B0" :> 128176) @@ ("U+1F600" :> 128512) @@ ("U+2764" :> 10084)

\* every one-character string of the model is ASCII; 0 stands for "below 128"
CodePoint(c) == IF c \in DOMAIN NonAscii THEN NonAscii[c] ELSE 0

UpperLetters == Chars("ABCDEFGHIJKLMNOPQRSTUVWXYZ")
LowerLetters == Chars("abcdefghijklmnopqrstuvwxyz")
Digits == {"0", "1", "2", "3", "4", "5", "6", "7", "8", "9"}
HexLetters == {"a", "b", "c", "d", "e", "f", "A", "B", "C", "D", "E", "F"}
Whitespace == {" ", "\t", "\n", "\r", "\f"}

Range(f) == {f[i] : i \in DOMAIN f}

LowerChar(c) ==
    IF c \in Range(UpperLetters)
    THEN LowerLetters[CHOOSE i \in 1..26 : UpperLetters[i] = c]
    ELSE c

\* str.lower()
Lower(s) == [i \in 1..Len(s) |-> LowerChar(s[i])]

\* str.strip(): leading and trailing whitespace removed
Strip(s) ==
    LET nonws == {i \in 1..Len(s) : s[i] \notin Whitespace}
    IN  IF nonws = {} THEN <<>>
        ELSE LET first == CHOOSE i \in nonws : \A j \in nonws : i <= j
                 last == CHOOSE i \in nonws : \A j \in nonws : j <= i
             IN  SubSeq(s, first, last)

\* s[i : i + len(p)] == p
MatchAt(s, i, p) ==
    /\ i >= 1
    /\ i + Len(p) - 1 <= Len(s)
    /\ \A k \in 1..Len(p) : s[i + k - 1] = p[k]

\* "p in s"
Contains(s, p) == \E i \in 1..(Len(s) + 1) : MatchAt(s, i, p)

\* the elements of sequence f that satisfy Test, in order (a list comprehension)
RECURSIVE SelectIdx(_, _, _)
SelectIdx(f, keep, i) ==
    IF i > Len(f) THEN <<>>
    ELSE (IF i \in keep THEN <<f[i]>> ELSE <<>>) \o SelectIdx(f, keep, i + 1)

-----------------------------------------------------------------------------
(* calculate_bot_likelihood: the constants of the code, in thousandths *)

PhraseWeight == 100
PhraseCap == 500
EmojiThreshold == 5
EmojiWeight == 50
EmojiCap == 200
UrlScore == 300
VerifiedScore == 50
RegularityThreshold == 1000
RegularityScore == 300
EngagementThreshold == 500
EngagementScore == 300
RatioThreshold == 10
RatioScore == 200
PostCountThreshold == 1000
FollowerThreshold == 1000
PostVolumeScore == 100
NoPicScore == 200
UsernameScore == 100
ScoreCap == 990

bot_phrases ==
    << Chars("check my profile"), Chars("check my bio"), Chars("click here"),
       Chars("make money fast"), Chars("follow me"), Chars("dm me"),
       Chars("link in bio"), Chars("check link"), Chars("join now"),
       Chars("earn money"), Chars("work from home"), Chars("passive income"),
       Chars("click my profile") >>

\* [phrase for phrase in bot_phrases if phrase in comment_text.lower()]
PhraseMatches(text) ==
    LET low == Lower(text)
    IN  SelectIdx(bot_phrases,
                  {i \in 1..Len(bot_phrases) : Contains(low, bot_phrases[i])}, 1)

\* the character class of the emoji pattern
IsEmoji(c) ==
    LET n == CodePoint(c)
    IN  \/ 128512 <= n /\ n <= 128591    \* U+1F600-U+1F64F
        \/ 127744 <= n /\ n <= 128511    \* U+1F300-U+1F5FF
        \/ 128640 <= n /\ n <= 128767    \* U+1F680-U+1F6FF
        \/ 128768 <= n /\ n <= 128895    \* U+1F700-U+1F77F
        \/ 128896 <= n /\ n <= 129023    \* U+1F780-U+1F7FF
        \/ 129024 <= n /\ n <= 129279    \* U+1F800-U+1F8FF
        \/ 129280 <= n /\ n <= 129535    \* U+1F900-U+1F9FF
        \/ 129536 <= n /\ n <= 129647    \* U+1FA00-U+1FA6F
        \/ 129648 <= n /\ n <= 129791    \* U+1FA70-U+1FAFF

\* len(re.findall(<emoji class>, comment_text))
EmojiCount(text) == Cardinality({i \in 1..Len(text) : IsEmoji(text[i])})

\* \w and \d on the characters of the model
IsDigit(c) == c \in Digits
IsWordChar(c) ==
    c \in Range(UpperLetters) \cup Range(LowerLetters) \cup Digits \cup {"_"}
IsHex(c) == c \in Digits \cup HexLetters

\* one repetition of (?:[-\w.]|(?:%[\da-fA-F]{2})) starts at position j
UrlBodyAt(text, j) ==
    /\ j <= Len(text)
    /\ \/ IsWordChar(text[j]) \/ text[j] \in {"-", "."}
       \/ /\ text[j] = "%"
          /\ j + 2 <= Len(text)
          /\ IsHex(text[j + 1])
          /\ IsHex(text[j + 2])

\* https?://(?:[-\w.]|(?:%[\da-fA-F]{2}))+ matches at position i
UrlAt(text, i) ==
    /\ MatchAt(text, i, Chars("http"))
    /\ LET j == IF MatchAt(text, i + 4, Chars("s")) THEN i + 5 ELSE i + 4
       IN  MatchAt(text, j, Chars("://")) /\ UrlBodyAt(text, j + 3)

\* bool(re.findall(<url pattern>, comment_text))
HasUrl(text) == \E i \in 1..Len(text) : UrlAt(text, i)

\* mutant of PhraseTerm: the cap of 0.5 is forgotten
PhraseTermUncapped(n) == n * PhraseWeight

\* min(len(phrase_matches) * 0.1, 0.5)
PhraseTerm(n) == Min(n * PhraseWeight, PhraseCap)

\* min((emoji_count - 5) * 0.05, 0.2)
EmojiTerm(n) == Min((n - EmojiThreshold) * EmojiWeight, EmojiCap)

\* mutant of SuspiciousUsername: the pattern without its $, found anywhere
SuspiciousUsernameAnywhere(name) ==
    LET low == Lower(name)
    IN  \/ Contains(low, Chars("bot"))
        \/ Contains(low, Chars("follow"))
        \/ Contains(low, Chars("auto"))
        \/ \E e \in 4..Len(low) : \A k \in (e - 3)..e : IsDigit(low[k])

\* re.search(r'(bot|follow|auto|\d{4})$', username.lower()); $ matches at the
\* end of the string and just before a newline that ends it
SuspiciousUsername(name) ==
    LET low == Lower(name)
        ends == {Len(low)} \cup
                (IF Len(low) > 0 /\ low[Len(low)] = "\n" THEN {Len(low) - 1} ELSE {})
        EndsAt(e, p) == MatchAt(low, e - Len(p) + 1, p)
    IN  \E e \in ends :
            \/ EndsAt(e, Chars("bot"))
            \/ EndsAt(e, Chars("follow"))
            \/ EndsAt(e, Chars("auto"))
            \/ e >= 4 /\ \A k \in (e - 3)..e : IsDigit(low[k])

-----------------------------------------------------------------------------
(* Inputs of calculate_bot_likelihood *)

Usernames == {Chars("follow_me_2023"), Chars("real_user")}

\* further usernames: the endings of the pattern in either case, and names that
\* carry them elsewhere than at the end or carry fewer than four digits
MoreUsernames ==
    {Chars("SpamBot"), Chars("bot"), Chars("AUTO"), Chars("i_Follow"), Chars("x12345"),
     Chars("user123"), Chars("2023_user"), Chars("botany"), Chars("autofollower"),
     Chars("12a4"), Chars("follow_")}
AllUsernames == Usernames \cup MoreUsernames

MoneyBag == "U+1F4B0"
Heart == "U+2764"

\* no signal: five emoji of the class, six hearts outside it, no URL body
PlainText ==
    Chars("Nice photo! see http:// or httpx://a.b ") \o Rep(MoneyBag, 5) \o Rep(Heart, 6)
\* the comment of tests/detection/test_detection.py
DealsText ==
    Chars("Check my profile for amazing deals! Make money fast at home! ")
        \o Rep(MoneyBag, 6)
\* phrases in upper case and a URL
LinkText == Chars("DM ME - Link In Bio: https://a-b.co/x")
\* every term of the text score at its cap
SpamText ==
    Chars("check my bio, click here, follow me, dm me, join now, earn money http://x.io%2F ")
        \o Rep(MoneyBag, 10)

CommentTexts ==
    {None, Some(<<>>), Some(PlainText), Some(DealsText), Some(LinkText), Some(SpamText)}

Opt(S) == {None} \cup {Some(v) : v \in S}

\* the one-key dict {k: v}, or {} when the key is absent
Field(k, o) == IF IsNone(o) THEN <<>> ELSE k :> Val(o)

\* profiles: every key is present or absent independently; the numeric values
\* sit on both sides of each threshold of the code
Profiles ==
    { Field("is_verified", v) @@ Field("posting_regularity", r)
        @@ Field("avg_engagement_rate", e) @@ Field("follower_count", fo)
        @@ Field("following_count", fg) @@ Field("post_count", p)
        @@ Field("has_profile_pic", pic) :
        v \in Opt(BOOLEAN), r \in Opt({500, 1000}), e \in Opt({400, 500}),
        fo \in Opt({0, 100, 1000}), fg \in Opt({1000, 1001}),
        p \in Opt({1000, 1001}), pic \in Opt(BOOLEAN) }

UserDatas == {None} \cup {Some(d) : d \in Profiles}

\* The pattern operators on the inputs of the model, evaluated once.
TextInputs == {Val(ct) : ct \in CommentTexts \ {None}}
phrase_matches_of == [t \in TextInputs |-> PhraseMatches(t)]
emoji_count_of == [t \in TextInputs |-> EmojiCount(t)]
urls_of == [t \in TextInputs |-> HasUrl(t)]
suspicious_username_of == [u \in AllUsernames |-> SuspiciousUsername(u)]

-----------------------------------------------------------------------------
(* calculate_bot_likelihood, step by step *)

\* mutant of InitialScore: the score is kept from one call to the next
StaleScore == text_pattern_score

\* lines 26-28: the three scores start at 0
InitialScore == 0
\* line 31: bot_indicators = {}
InitialIndicators == <<>>

\* lines 43-46
PhraseStep(text, st) ==
    LET phrase_matches == phrase_matches_of[text]
    IN  IF Len(phrase_matches) > 0
        THEN [score |-> st.score + PhraseTerm(Len(phrase_matches)),
              ind |-> DictSet(st.ind, "suspicious_phrases", phrase_matches)]
        ELSE st

\* lines 49-52
EmojiStep(text, st) ==
    LET emoji_count == emoji_count_of[text]
    IN  IF emoji_count > EmojiThreshold
        THEN [score |-> st.score + EmojiTerm(emoji_count),
              ind |-> DictSet(st.ind, "excessive_emojis", emoji_count)]
        ELSE st

\* lines 55-58
UrlStep(text, st) ==
    IF urls_of[text]
    THEN [score |-> st.score + UrlScore, ind |-> DictSet(st.ind, "contains_urls", TRUE)]
    ELSE st

\* lines 34-58
TextAnalysis ==
    /\ op = "score" /\ pc = "text"
    /\ LET st0 == [score |-> text_pattern_score, ind |-> bot_indicators]
           st == IF CommentGiven(comment_text)
                 THEN UrlStep(Val(comment_text),
                        EmojiStep(Val(comment_text), PhraseStep(Val(comment_text), st0)))
                 ELSE st0
       IN  /\ text_pattern_score' = st.score
           /\ bot_indicators' = st.ind
    /\ pc' = "verified"
    /\ UNCHANGED <<env_vars, op, attempt, prev, username, comment_text, user_data,
                   behavioral_score, profile_score, ret, coord_vars>>

\* user_data.get('is_verified', False)
IsVerified(d) == DictGet(d, "is_verified", FALSE)

\* mutant of VerifiedResult: the indicators found so far are returned too
VerifiedResultKeeping ==
    [likelihood |-> VerifiedScore,
     indicators |-> DictSet(bot_indicators, "verified_account", TRUE)]

\* line 64: the value returned for a verified account
VerifiedResult == [likelihood |-> VerifiedScore, indicators |-> ("verified_account" :> TRUE)]

\* lines 61-64
VerifiedCheck ==
    /\ op = "score" /\ pc = "verified"
    /\ IF UserDataGiven(user_data)
       THEN IF IsVerified(Val(user_data))
            THEN ret' = Some(VerifiedResult) /\ pc' = "done"
            ELSE ret' = ret /\ pc' = "behavioral"
       ELSE ret' = ret /\ pc' = "username"
    /\ UNCHANGED <<env_vars, op, attempt, prev, username, comment_text, user_data,
                   text_pattern_score, behavioral_score, profile_score,
                   bot_indicators, coord_vars>>

\* lines 67-68: posting_regularity is not None and posting_regularity < 1
RegularPosting(d) ==
    "posting_regularity" \in DOMAIN d /\ d["posting_regularity"] < RegularityThreshold

\* mutant of LowEngagement: the threshold itself counts as low
LowEngagementInclusive(d) ==
    "avg_engagement_rate" \in DOMAIN d /\ d["avg_engagement_rate"] <= EngagementThreshold

\* lines 73-74: engagement_rate is not None and engagement_rate < 0.5
LowEngagement(d) ==
    "avg_engagement_rate" \in DOMAIN d /\ d["avg_engagement_rate"] < EngagementThreshold

\* lines 67-76
BehavioralAnalysis ==
    /\ op = "score" /\ pc = "behavioral"
    /\ LET d == Val(user_data)
           s1 == IF RegularPosting(d)
                 THEN [score |-> behavioral_score + RegularityScore,
                       ind |-> DictSet(bot_indicators, "suspiciously_regular_posting", TRUE)]
                 ELSE [score |-> behavioral_score, ind |-> bot_indicators]
           s2 == IF LowEngagement(d)
                 THEN [score |-> s1.score + EngagementScore,
                       ind |-> DictSet(s1.ind, "extremely_low_engagement", TRUE)]
                 ELSE s1
       IN  /\ behavioral_score' = s2.score
           /\ bot_indicators' = s2.ind
    /\ pc' = "profile"
    /\ UNCHANGED <<env_vars, op, attempt, prev, username, comment_text, user_data,
                   text_pattern_score, profile_score, ret, coord_vars>>

\* line 79: followers = user_data.get('follower_count', 0)
Followers(d) == DictGet(d, "follower_count", 0)
\* line 80: following = user_data.get('following_count', 0)
Following(d) == DictGet(d, "following_count", 0)
\* line 88: post_count = user_data.get('post_count', 0)
PostCount(d) == DictGet(d, "post_count", 0)

\* src/platforms/instagram.py line 303, analyze_user_activity:
\* following_count / (follower_count + 1) > 10
ActivityHighFollowingRatio(following_count, follower_count) ==
    following_count > 10 * (follower_count + 1)

\* mutant of HighFollowingRatio: the ratio is taken as analyze_user_activity takes it
HighFollowingRatioPlusOne(d) ==
    Following(d) > RatioThreshold * (Followers(d) + 1)

\* line 83: followers > 0 and following / followers > 10
HighFollowingRatio(d) ==
    Followers(d) > 0 /\ Following(d) > RatioThreshold * Followers(d)

\* line 89: post_count > 1000 and followers < 1000
ExcessivePostVolume(d) ==
    PostCount(d) > PostCountThreshold /\ Followers(d) < FollowerThreshold

\* line 94: not user_data.get('has_profile_pic', True)
NoProfilePic(d) == ~DictGet(d, "has_profile_pic", TRUE)

\* lines 79-96
ProfileAnalysis ==
    /\ op = "score" /\ pc = "profile"
    /\ LET d == Val(user_data)
           s1 == IF HighFollowingRatio(d)
                 THEN [score |-> profile_score + RatioScore,
                       ind |-> DictSet(bot_indicators, "high_following_ratio", TRUE)]
                 ELSE [score |-> profile_score, ind |-> bot_indicators]
           s2 == IF ExcessivePostVolume(d)
                 THEN [score |-> s1.score + PostVolumeScore,
                       ind |-> DictSet(s1.ind, "excessive_post_volume", TRUE)]
                 ELSE s1
           s3 == IF NoProfilePic(d)
                 THEN [score |-> s2.score + NoPicScore,
                       ind |-> DictSet(s2.ind, "no_profile_pic", TRUE)]
                 ELSE s2
       IN  /\ profile_score' = s3.score
           /\ bot_indicators' = s3.ind
    /\ pc' = "username"
    /\ UNCHANGED <<env_vars, op, attempt, prev, username, comment_text, user_data,
                   text_pattern_score, behavioral_score, ret, coord_vars>>

\* lines 99-101
UsernameAnalysis ==
    /\ op = "score" /\ pc = "username"
    /\ IF suspicious_username_of[username]
       THEN /\ bot_indicators' = DictSet(bot_indicators, "suspicious_username", TRUE)
            /\ profile_score' = profile_score + UsernameScore
       ELSE UNCHANGED <<bot_indicators, profile_score>>
    /\ pc' = "combine"
    /\ UNCHANGED <<env_vars, op, attempt, prev, username, comment_text, user_data,
                   text_pattern_score, behavioral_score, ret, coord_vars>>

\* mutant of FinalScore: the first weighting is used whatever is available
FinalScoreOneFormula(hasData, hasText, text, behavioral, profile) ==
    (text * 4 + behavioral * 4 + profile * 2) \div 10

\* mutant of FinalScore: comment and profile are summed without weights
FinalScoreUnweighted(hasData, hasText, text, behavioral, profile) ==
    IF hasData /\ hasText THEN text + behavioral + profile
    ELSE IF hasData THEN (behavioral * 6 + profile * 4) \div 10
    ELSE IF hasText THEN text
    ELSE profile

\* mutant of FinalScore: a comment alone is scored with the username signal added
FinalScoreWithUsername(hasData, hasText, text, behavioral, profile) ==
    IF hasData /\ hasText THEN (text * 4 + behavioral * 4 + profile * 2) \div 10
    ELSE IF hasData THEN (behavioral * 6 + profile * 4) \div 10
    ELSE IF hasText THEN text + profile
    ELSE profile

\* lines 104-115; the weights are tenths, the scores thousandths
FinalScore(hasData, hasText, text, behavioral, profile) ==
    IF hasData /\ hasText THEN (text * 4 + behavioral * 4 + profile * 2) \div 10
    ELSE IF hasData THEN (behavioral * 6 + profile * 4) \div 10
    ELSE IF hasText THEN text
    ELSE profile

\* mutant of Capped: no cap
CappedNone(final_score) == final_score

\* line 117: min(final_score, 0.99)
Capped(final_score) == Min(final_score, ScoreCap)

\* lines 104-117
Combine ==
    /\ op = "score" /\ pc = "combine"
    /\ ret' = Some([likelihood |->
                      Capped(FinalScore(UserDataGiven(user_data), CommentGiven(comment_text),
                                        text_pattern_score, behavioral_score, profile_score)),
                    indicators |-> bot_indicators])
    /\ pc' = "done"
    /\ UNCHANGED <<env_vars, op, attempt, prev, username, comment_text, user_data,
                   text_pattern_score, behavioral_score, profile_score,
                   bot_indicators, coord_vars>>

-----------------------------------------------------------------------------
(* Inputs of detect_coordination *)

\* a comment dict; created_at is optional (<<>>: the key is absent)
Comment(u, t, ts) ==
    ("username" :> Chars(u)) @@ ("text" :> t) @@ Field("created_at", ts)

DealText == Chars("Check this out!")
DealTextVariant == Chars("  CHECK this OUT!") \o <<"\n">>
ShortText == Chars("So cool!!")
ShortTextVariant == Chars(" so COOL!! ")
OtherText == Chars("This looks interesting!")
OtherTextVariant == Chars("this looks INTERESTING!") \o <<"\t">>
DealTextUpper == Chars("CHECK THIS OUT! ")

\* two long texts and one short text (9 characters), each written in several
\* ways by several users; timestamps valid, malformed and absent
CommentPool ==
    { Comment("user1", DealText, Some("2023-01-01T12:00:00")),
      Comment("user2", DealTextVariant, None),
      Comment("user3", DealTextUpper, Some("2023-01-01T12:30:00")),
      Comment("user3", ShortText, Some("yesterday")),
      Comment("user2", ShortTextVariant, Some("2023-01-01T12:05:00")),
      Comment("user3", OtherText, None),
      Comment("user1", OtherTextVariant, Some("13:00 ??")) }

RECURSIVE SeqsUpTo(_, _)
SeqsUpTo(S, n) ==
    IF n = 0 THEN {<<>>}
    ELSE LET shorter == SeqsUpTo(S, n - 1)
         IN  shorter \cup {Append(q, x) : q \in {r \in shorter : Len(r) = n - 1}, x \in S}

CommentSeqs == SeqsUpTo(CommentPool, MaxComments)

\* Normalize (below) on the texts of the pool, evaluated once.
PoolTexts == {c["text"] : c \in CommentPool}

-----------------------------------------------------------------------------
(* detect_coordination *)

\* mutant of CommentSubscripts: the timestamp is read as comment['created_at']
CommentSubscriptsWithTimestamp == {"text", "username", "created_at"}

\* the keys of a comment read by subscript (lines 134-135): a comment without
\* one of them raises KeyError; created_at is read with .get (line 136)
CommentSubscripts == {"text", "username"}

\* mutant of Normalize: the text is trimmed but not lowercased
NormalizeNoLower(t) == Strip(t)

\* line 134: comment['text'].lower().strip()
Normalize(t) == Strip(Lower(t))
normalized_of == [t \in PoolTexts |-> Normalize(t)]

\* lines 141-145: the entry appended to the group
GroupEntry(comment) ==
    [username |-> comment["username"],
     timestamp |-> IF "created_at" \in DOMAIN comment
                   THEN Some(comment["created_at"]) ELSE None,
     original_comment |-> comment]

\* mutant of AddToGroups: a comment whose text has a group already joins it and
\* opens a further group of the same text
AddToGroupsAlsoNew(groups, comment) ==
    LET text == normalized_of[comment["text"]]
    IN  Append([i \in 1..Len(groups) |->
                  IF groups[i].text = text
                  THEN [text |-> text,
                        comments |-> Append(groups[i].comments, GroupEntry(comment))]
                  ELSE groups[i]],
               [text |-> text, comments |-> <<GroupEntry(comment)>>])

\* lines 138-145: comment_groups is a dict in insertion order, here the
\* sequence of its items [text, comments]
AddToGroups(groups, comment) ==
    LET text == normalized_of[comment["text"]]
        at == {i \in 1..Len(groups) : groups[i].text = text}
    IN  IF at = {}
        THEN Append(groups, [text |-> text, comments |-> <<GroupEntry(comment)>>])
        ELSE [i \in 1..Len(groups) |->
                IF i \in at
                THEN [text |-> text,
                      comments |-> Append(groups[i].comments, GroupEntry(comment))]
                ELSE groups[i]]

\* lines 133-145: the loop over comments[i..]
RECURSIVE GroupFrom(_, _, _)
GroupFrom(groups, cs, i) ==
    IF i > Len(cs) THEN groups
    ELSE GroupFrom(AddToGroups(groups, cs[i]), cs, i + 1)

\* set(c['username'] for c in comments)
GroupUsers(entries) == {entries[i].username : i \in 1..Len(entries)}

\* mutant of Confidence: no cap
ConfidenceUncapped(n) == 500 + n * 100

\* line 161: min(0.5 + (len(comments) * 0.1), 0.9)
Confidence(n) == Min(500 + n * 100, 900)

\* mutant of Skipped: the length of the text is not looked at
SkippedNoLength(g) == Len(g.comments) < 2

\* line 152: the group is skipped
Skipped(g) == Len(g.text) < 10 \/ Len(g.comments) < 2

\* line 156: the same text was used by more than one user
MultipleUsers(g) == Cardinality(GroupUsers(g.comments)) > 1

\* lines 157-162; users is list(set(...)), a list in no defined order: the set
Network(g) ==
    [text |-> g.text,
     users |-> GroupUsers(g.comments),
     comment_count |-> Len(g.comments),
     confidence |-> Confidence(Len(g.comments))]

\* lines 148-164: the loop over the groups from the i-th on
RECURSIVE NetworksFrom(_, _)
NetworksFrom(groups, i) ==
    IF i > Len(groups) THEN <<>>
    ELSE (IF ~Skipped(groups[i]) /\ MultipleUsers(groups[i])
          THEN <<Network(groups[i])>> ELSE <<>>) \o NetworksFrom(groups, i + 1)

\* line 131: comment_groups = {}
InitialGroups == <<>>

\* lines 131-145
GroupComments ==
    /\ op = "coord" /\ pc = "group"
    /\ IF \E i \in 1..Len(comments) : ~(CommentSubscripts \subseteq DOMAIN comments[i])
       THEN pc' = "raised" /\ UNCHANGED comment_groups
       ELSE pc' = "networks" /\ comment_groups' = GroupFrom(comment_groups, comments, 1)
    /\ UNCHANGED <<env_vars, op, attempt, prev, comments, networks, scorer_vars>>

\* lines 148-164
FindNetworks ==
    /\ op = "coord" /\ pc = "networks"
    /\ networks' = Some(NetworksFrom(comment_groups, 1))
    /\ pc' = "done"
    /\ UNCHANGED <<env_vars, op, attempt, prev, comments, comment_groups, scorer_vars>>

-----------------------------------------------------------------------------
(* Concurrent workers: each runs calls of the two functions, step by step *)

\* number of workers that run calls at the same time
MaxWorkers == 2
Workers == 1..MaxWorkers

\* the objects callers pass by reference: two profiles and two comment lists;
\* any number of calls may be given the same object
ArgObjects ==
    [profile_a |-> ("posting_regularity" :> 500) @@ ("avg_engagement_rate" :> 400)
                     @@ ("follower_count" :> 100) @@ ("following_count" :> 1001)
                     @@ ("post_count" :> 1001) @@ ("has_profile_pic" :> FALSE),
     profile_v |-> ("is_verified" :> TRUE) @@ ("follower_count" :> 1000),
     comments_a |-> << Comment("user1", DealText, Some("2023-01-01T12:00:00")),
                       Comment("user2", DealTextVariant, None),
                       Comment("user3", ShortText, Some("yesterday")) >>,
     comments_b |-> << Comment("user3", OtherText, None),
                       Comment("user1", OtherTextVariant, Some("13:00 ??")),
                       Comment("user3", DealTextUpper, Some("2023-01-01T12:30:00")) >>]

\* the frame of a call that has not run its first statement; data names the
\* profile (scorer) or the comment list (detector) passed, if any
Frame(o, u, ct, data) ==
    [op |-> o, pc |-> "enter", username |-> u, comment_text |-> ct, data |-> data,
     text_pattern_score |-> 0, behavioral_score |-> 0, profile_score |-> 0, ret |-> None]

\* the calls a worker may make
WorkerCalls ==
    { Frame("score", Chars("follow_me_2023"), Some(SpamText), Some("profile_a")),
      Frame("score", Chars("real_user"), Some(PlainText), Some("profile_a")),
      Frame("score", Chars("real_user"), Some(LinkText), Some("profile_v")),
      Frame("score", Chars("follow_me_2023"), None, None),
      Frame("coord", <<>>, None, Some("comments_a")),
      Frame("coord", <<>>, None, Some("comments_b")) }

\* mutant of LocalCell: the dicts are module-level, one for all the calls
LocalCellModule(w, name) == <<1, name>>

\* lines 31 and 131: bot_indicators = {} and comment_groups = {} create the
\* dict inside the call, so every call (here: of worker w) has its own
LocalCell(w, name) == <<w, name>>
LocalCells == {LocalCell(w, name) : w \in Workers, name \in {"bot_indicators", "comment_groups"}}

\* the user_data argument of the frame, read through the reference
UserDataOf(f, objs) == IF IsNone(f.data) THEN None ELSE Some(objs[Val(f.data)])

\* The steps of a call as functions of st = [f: the frame, ind: the dict
\* bot_indicators, groups: the dict comment_groups] and the argument objects.

\* lines 26-31 and 131
EnterOf(st) ==
    IF st.f.op = "score"
    THEN [f |-> [st.f EXCEPT !.pc = "text", !.text_pattern_score = InitialScore,
                             !.behavioral_score = InitialScore,
                             !.profile_score = InitialScore],
          ind |-> InitialIndicators, groups |-> st.groups]
    ELSE [f |-> [st.f EXCEPT !.pc = "group"], ind |-> st.ind, groups |-> InitialGroups]

\* lines 34-58
TextOf(st) ==
    LET st0 == [score |-> st.f.text_pattern_score, ind |-> st.ind]
        t == IF CommentGiven(st.f.comment_text)
             THEN UrlStep(Val(st.f.comment_text),
                    EmojiStep(Val(st.f.comment_text), PhraseStep(Val(st.f.comment_text), st0)))
             ELSE st0
    IN  [st EXCEPT !.f.pc = "verified", !.f.text_pattern_score = t.score, !.ind = t.ind]

\* lines 61-64
VerifiedOf(st, objs) ==
    LET ud == UserDataOf(st.f, objs)
    IN  IF UserDataGiven(ud)
        THEN IF IsVerified(Val(ud))
             THEN [st EXCEPT !.f.pc = "done", !.f.ret = Some(VerifiedResult)]
             ELSE [st EXCEPT !.f.pc = "behavioral"]
        ELSE [st EXCEPT !.f.pc = "username"]

\* lines 67-76
BehavioralOf(st, objs) ==
    LET d == Val(UserDataOf(st.f, objs))
        s1 == IF RegularPosting(d)
              THEN [score |-> st.f.behavioral_score + RegularityScore,
                    ind |-> DictSet(st.ind, "suspiciously_regular_posting", TRUE)]
              ELSE [score |-> st.f.behavioral_score, ind |-> st.ind]
        s2 == IF LowEngagement(d)
              THEN [score |-> s1.score + EngagementScore,
                    ind |-> DictSet(s1.ind, "extremely_low_engagement", TRUE)]
              ELSE s1
    IN  [st EXCEPT !.f.pc = "profile", !.f.behavioral_score = s2.score, !.ind = s2.ind]

\* lines 79-96
ProfileOf(st, objs) ==
    LET d == Val(UserDataOf(st.f, objs))
        s1 == IF HighFollowingRatio(d)
              THEN [score |-> st.f.profile_score + RatioScore,
                    ind |-> DictSet(st.ind, "high_following_ratio", TRUE)]
              ELSE [score |-> st.f.profile_score, ind |-> st.ind]
        s2 == IF ExcessivePostVolume(d)
              THEN [score |-> s1.score + PostVolumeScore,
                    ind |-> DictSet(s1.ind, "excessive_post_volume", TRUE)]
              ELSE s1
        s3 == IF NoProfilePic(d)
              THEN [score |-> s2.score + NoPicScore,
                    ind |-> DictSet(s2.ind, "no_profile_pic", TRUE)]
              ELSE s2
    IN  [st EXCEPT !.f.pc = "username", !.f.profile_score = s3.score, !.ind = s3.ind]

\* lines 99-101
UsernameOf(st) ==
    IF suspicious_username_of[st.f.username]
    THEN [st EXCEPT !.f.pc = "combine",
                    !.f.profile_score = st.f.profile_score + UsernameScore,
                    !.ind = DictSet(st.ind, "suspicious_username", TRUE)]
    ELSE [st EXCEPT !.f.pc = "combine"]

\* lines 104-117
CombineOf(st, objs) ==
    [st EXCEPT !.f.pc = "done",
               !.f.ret = Some([likelihood |->
                                 Capped(FinalScore(UserDataGiven(UserDataOf(st.f, objs)),
                                                   CommentGiven(st.f.comment_text),
                                                   st.f.text_pattern_score,
                                                   st.f.behavioral_score,
                                                   st.f.profile_score)),
                               indicators |-> st.ind])]

\* lines 133-145
GroupOf(st, objs) ==
    [st EXCEPT !.f.pc = "networks",
               !.groups = GroupFrom(st.groups, objs[Val(st.f.data)], 1)]

\* lines 148-164
NetworksOf(st) ==
    [st EXCEPT !.f.pc = "done", !.f.ret = Some(NetworksFrom(st.groups, 1))]

\* the next step of the call, whatever it is
StepOf(st, objs) ==
    CASE st.f.pc = "enter" -> EnterOf(st)
      [] st.f.pc = "text" -> TextOf(st)
      [] st.f.pc = "verified" -> VerifiedOf(st, objs)
      [] st.f.pc = "behavioral" -> BehavioralOf(st, objs)
      [] st.f.pc = "profile" -> ProfileOf(st, objs)
      [] st.f.pc = "username" -> UsernameOf(st)
      [] st.f.pc = "combine" -> CombineOf(st, objs)
      [] st.f.pc = "group" -> GroupOf(st, objs)
      [] st.f.pc = "networks" -> NetworksOf(st)

\* the call run alone, from its first statement to its return
RECURSIVE RunAlone(_)
RunAlone(st) == IF st.f.pc = "done" THEN st ELSE RunAlone(StepOf(st, ArgObjects))
alone_result_of ==
    [c \in WorkerCalls |-> RunAlone([f |-> c, ind |-> <<>>, groups |-> <<>>]).f.ret]

\* the view worker w has of its call: the frame and the dicts of its cells
View(w) ==
    [f |-> frames[w],
     ind |-> local_objects[LocalCell(w, "bot_indicators")],
     groups |-> local_objects[LocalCell(w, "comment_groups")]]

\* the step st of worker w takes effect on its frame and on the dicts
Store(w, st) ==
    /\ frames' = [frames EXCEPT ![w] = st.f]
    /\ local_objects' = [local_objects EXCEPT ![LocalCell(w, "bot_indicators")] = st.ind,
                                               ![LocalCell(w, "comment_groups")] = st.groups]
    /\ UNCHANGED <<arg_objects, outside_workers>>

At(w, o, p) == frames[w].op = o /\ frames[w].pc = p

WorkerEnter(w) == frames[w].pc = "enter" /\ Store(w, EnterOf(View(w)))
WorkerText(w) == At(w, "score", "text") /\ Store(w, TextOf(View(w)))
WorkerVerified(w) == At(w, "score", "verified") /\ Store(w, VerifiedOf(View(w), arg_objects))
WorkerBehavioral(w) ==
    At(w, "score", "behavioral") /\ Store(w, BehavioralOf(View(w), arg_objects))
WorkerProfile(w) == At(w, "score", "profile") /\ Store(w, ProfileOf(View(w), arg_objects))
WorkerUsername(w) == At(w, "score", "username") /\ Store(w, UsernameOf(View(w)))
WorkerCombine(w) == At(w, "score", "combine") /\ Store(w, CombineOf(View(w), arg_objects))
WorkerGroup(w) == At(w, "coord", "group") /\ Store(w, GroupOf(View(w), arg_objects))
WorkerNetworks(w) == At(w, "coord", "networks") /\ Store(w, NetworksOf(View(w)))

\* the call of worker w has returned: its frame is dropped with its locals,
\* and the worker makes its next call
WorkerNextCall(w) ==
    /\ frames[w].pc = "done"
    /\ \E c \in WorkerCalls : frames' = [frames EXCEPT ![w] = c]
    /\ local_objects' = [local_objects EXCEPT ![LocalCell(w, "bot_indicators")] = <<>>,
                                               ![LocalCell(w, "comment_groups")] = <<>>]
    /\ UNCHANGED <<arg_objects, outside_workers>>

\* no concurrent workers
WorkersIdle == frames = <<>> /\ local_objects = <<>> /\ arg_objects = <<>>

-----------------------------------------------------------------------------
(* src/database/manager.py: the three tables and the methods of               *)
(* DatabaseManager.  The connection to the database file is taken to          *)
(* succeed; foreign keys are declared but not enforced (sqlite3 leaves        *)
(* PRAGMA foreign_keys off), and no method deletes a row.                     *)
(* A table is the sequence of its rows in the order they were inserted; the    *)
(* row of detected_bots with id i is at index i (INTEGER PRIMARY KEY           *)
(* AUTOINCREMENT, and no row is ever deleted).  last_call is the call made     *)
(* last, with its arguments and the value it returned.                        *)

\* most rows detected_bots is filled with
MaxBots == 2

\* the order of the characters of the keys, as their code points order them
CharOrder == Chars("0123456789ABCDEFGHIJKLMNOPQRSTUVWXYZ_abcdefghijklmnopqrstuvwxyz")
Ord(c) == CHOOSE i \in 1..Len(CharOrder) : CharOrder[i] = c

\* a < b for two str
StrLess(a, b) ==
    \E i \in 1..(Len(b)) :
        /\ \A j \in 1..(i - 1) : j <= Len(a) /\ a[j] = b[j]
        /\ \/ i = Len(a) + 1
           \/ i <= Len(a) /\ Ord(a[i]) < Ord(b[i])

\* sorted(keys)
RECURSIVE Sorted(_)
Sorted(S) ==
    IF S = {} THEN <<>>
    ELSE LET least == CHOOSE x \in S : \A y \in S \ {x} : StrLess(Chars(x), Chars(y))
         IN  <<least>> \o Sorted(S \ {least})

\* sep.join(q)
RECURSIVE Join(_, _)
Join(sep, q) ==
    IF Len(q) = 0 THEN <<>>
    ELSE IF Len(q) = 1 THEN Chars(q[1])
    ELSE Chars(q[1]) \o sep \o Join(sep, Tail(q))

\* mutant of IndicatorsStr: the keys are joined with a comma and a space
IndicatorsStrSpaced(indicators) ==
    IF ~IsNone(indicators) /\ DictTruthy(Val(indicators))
    THEN Some(Join(<<",", " ">>, Sorted(DOMAIN Val(indicators))))
    ELSE None

\* line 276: ','.join(sorted(indicators.keys())) if indicators else None
IndicatorsStr(indicators) ==
    IF ~IsNone(indicators) /\ DictTruthy(Val(indicators))
    THEN Some(Join(<<",">>, Sorted(DOMAIN Val(indicators))))
    ELSE None

\* the arguments of a call of add_detected_bot
Detection(u, cid, pid, likelihood, text, ind) ==
    [username |-> u, comment_id |-> cid, post_id |-> pid, bot_likelihood |-> likelihood,
     comment_text |-> text, indicators |-> ind]

\* the detection of the test, one with the indicators of the scorer, one that
\* names the comment of the first again, and one without comment id, text or
\* indicators
Detections ==
    { Detection("suspected_bot", Some("c123"), "12345", 850, Some("Check out my profile!"),
                Some(("spammy" :> 1) @@ ("link_in_bio" :> 1))),
      Detection("spam_bot_2023", Some("c124"), "67890", 700, Some("DM me"),
                Some(("suspicious_username" :> TRUE) @@ ("excessive_emojis" :> 7)
                       @@ ("contains_urls" :> TRUE) @@ ("no_profile_pic" :> TRUE))),
      Detection("other_user", Some("c123"), "67890", 990, Some(""), Some(<<>>)),
      Detection("no_id_user", None, "12345", 650, None, None) }

\* monitor.py lines 135-141: check_for_new_posts passes no indicators
MonitorDetection(d) == [d EXCEPT !.indicators = None]

indicators_str_of ==
    [d \in Detections \cup {MonitorDetection(e) : e \in Detections} |->
        IndicatorsStr(d.indicators)]

\* lines 87-88: warning_sent and warning_approved DEFAULT 0
DefaultFlag == 0

\* lines 278-282: the row INSERT makes of the arguments and the defaults
BotRow(d) ==
    [username |-> d.username, comment_id |-> d.comment_id, post_id |-> d.post_id,
     bot_likelihood |-> d.bot_likelihood, comment_text |-> d.comment_text,
     indicators |-> indicators_str_of[d],
     warning_sent |-> DefaultFlag, warning_approved |-> DefaultFlag]

\* mutant of CommentIdTaken: the column comment_id is not UNIQUE
CommentIdTakenNever(cid) == FALSE

\* line 83, comment_id TEXT UNIQUE: a row holds this comment id already (NULL
\* is distinct from every value, NULL included)
CommentIdTaken(cid) ==
    ~IsNone(cid) /\ \E i \in 1..Len(detected_bots) : detected_bots[i].comment_id = cid

Call(name, args, returned) == [name |-> name, args |-> args, returned |-> returned]

\* lines 269-297: what the call does to the database
InsertDetectedBot(d) ==
    IF CommentIdTaken(d.comment_id)
    THEN /\ UNCHANGED detected_bots
         /\ last_call' = Call("add_detected_bot", d, None)
    ELSE /\ detected_bots' = Append(detected_bots, BotRow(d))
         /\ last_call' = Call("add_detected_bot", d, Some(Len(detected_bots) + 1))

\* lines 269-297, called by the monitor
AddDetectedBot(d) ==
    /\ CommentIdTaken(d.comment_id) \/ Len(detected_bots) < MaxBots
    /\ InsertDetectedBot(d)
    /\ UNCHANGED <<monitored_accounts, processed_posts, outside_db>>

\* the rows of a table that satisfy a condition on one column
Rows(table, column, v) == {i \in 1..Len(table) : table[i][column] = v}

\* the instants datetime.now() gives
Times == {"2026-01-01T10:00:00", "2026-01-02T10:00:00"}
AccountNames == {"test_account", "other_account"}
Platforms == {"instagram", "twitter"}

\* mutant of UsernameTaken: the table has no PRIMARY KEY on username
UsernameTakenNever(u) == FALSE

\* line 50, username TEXT PRIMARY KEY: a row holds this username already
UsernameTaken(u) == Rows(monitored_accounts, "username", u) # {}

\* lines 50-54: the row INSERT makes: last_checked NULL, active DEFAULT 1
AccountRow(u, platform) ==
    [username |-> u, platform |-> platform, last_checked |-> None, active |-> 1]

\* lines 108-133
AddMonitoredAccount(u, platform) ==
    /\ IF UsernameTaken(u)
       THEN /\ UNCHANGED monitored_accounts
            /\ last_call' = Call("add_monitored_account",
                                 [username |-> u, platform |-> platform], Some(FALSE))
       ELSE /\ monitored_accounts' = Append(monitored_accounts, AccountRow(u, platform))
            /\ last_call' = Call("add_monitored_account",
                                 [username |-> u, platform |-> platform], Some(TRUE))
    /\ UNCHANGED <<processed_posts, detected_bots, outside_db>>

\* line 145: ORDER BY username
OrderByUsername(rows) ==
    LET names == Sorted({monitored_accounts[i].username : i \in rows})
    IN  [k \in 1..Len(names) |->
           LET row == monitored_accounts[CHOOSE i \in rows :
                                           monitored_accounts[i].username = names[k]]
           IN  <<row.username, row.platform, row.last_checked>>]

\* lines 135-154
GetMonitoredAccounts(active_only) ==
    /\ LET rows == IF active_only THEN Rows(monitored_accounts, "active", 1)
                   ELSE 1..Len(monitored_accounts)
       IN  last_call' = Call("get_monitored_accounts", [active_only |-> active_only],
                             Some(OrderByUsername(rows)))
    /\ UNCHANGED <<monitored_accounts, processed_posts, detected_bots, outside_db>>

\* UPDATE table SET column = v WHERE key = k
Update(table, key, k, column, v) ==
    [i \in 1..Len(table) |->
        IF table[i][key] = k THEN [table[i] EXCEPT ![column] = v] ELSE table[i]]

\* lines 174-196
UpdateAccountStatus(u, active) ==
    /\ monitored_accounts' =
          Update(monitored_accounts, "username", u, "active", IF active THEN 1 ELSE 0)
    /\ last_call' = Call("update_account_status", [username |-> u, active |-> active],
                         Some(UsernameTaken(u)))
    /\ UNCHANGED <<processed_posts, detected_bots, outside_db>>

\* lines 198-221: what the call does to the database
SetLastChecked(u, timestamp) ==
    /\ monitored_accounts' =
          Update(monitored_accounts, "username", u, "last_checked", Some(timestamp))
    /\ last_call' = Call("update_last_checked", [username |-> u], Some(UsernameTaken(u)))

\* lines 198-221, called by the monitor
UpdateLastChecked(u, timestamp) ==
    /\ SetLastChecked(u, timestamp)
    /\ UNCHANGED <<processed_posts, detected_bots, outside_db>>

\* the arguments of a call of add_processed_post
PostArgs ==
    { [post_id |-> "12345", post_url |-> "https://www.instagram.com/p/test123/",
       monitored_account |-> "test_account", platform |-> "instagram"],
      [post_id |-> "12345", post_url |-> "https://www.instagram.com/p/other/",
       monitored_account |-> "other_account", platform |-> "instagram"],
      [post_id |-> "67890", post_url |-> "https://www.instagram.com/p/test678/",
       monitored_account |-> "unknown_user", platform |-> "twitter"] }
PostIds == {a.post_id : a \in PostArgs} \cup {"99999"}

\* mutant of PostIdTaken: INSERT without OR IGNORE on a table without the key
PostIdTakenNever(post_id) == FALSE

\* line 64, post_id TEXT PRIMARY KEY: a row holds this post id already
PostIdTaken(post_id) == Rows(processed_posts, "post_id", post_id) # {}

\* lines 225-247: INSERT OR IGNORE; cursor.lastrowid is a number after an
\* INSERT, carried out or ignored, so the value returned is True
InsertProcessedPost(a) ==
    /\ IF PostIdTaken(a.post_id)
       THEN UNCHANGED processed_posts
       ELSE processed_posts' = Append(processed_posts, a)
    /\ last_call' = Call("add_processed_post", a, Some(TRUE))

\* lines 225-247, called by the monitor
AddProcessedPost(a) ==
    /\ InsertProcessedPost(a)
    /\ UNCHANGED <<monitored_accounts, detected_bots, outside_db>>

\* lines 249-265
CheckIfPostProcessed(post_id) ==
    /\ last_call' = Call("check_if_post_processed", [post_id |-> post_id],
                         Some(PostIdTaken(post_id)))
    /\ UNCHANGED <<monitored_accounts, processed_posts, detected_bots, outside_db>>

\* lines 323-346: the detection joined with its post, None if either is missing
GetBotDetails(bot_id) ==
    IF bot_id \in 1..Len(detected_bots) /\ PostIdTaken(detected_bots[bot_id].post_id)
    THEN Some(detected_bots[bot_id])
    ELSE None

\* lines 348-370: UPDATE detected_bots SET warning_sent, warning_approved WHERE id
UpdateBotWarningStatus(bot_id, sent, approved) ==
    [i \in 1..Len(detected_bots) |->
        IF i = bot_id
        THEN [detected_bots[i] EXCEPT !.warning_sent = IF sent THEN 1 ELSE 0,
                                      !.warning_approved = IF approved THEN 1 ELSE 0]
        ELSE detected_bots[i]]

-----------------------------------------------------------------------------
(* src/review_bots.py: the commands of the reviewer *)

\* what the reviewer and Instagram answer to approve_and_send_warning: the
\* reviewer declines (line 121); InstagramPlatform() raises (139) or is not
\* authenticated (131); post_reply_comment raises or returns false (165, 176)
\* or returns true (170)
Answers == {"declined", "init_error", "login_failed", "send_failed", "sent"}

\* the ids a reviewer may type: those of the rows and one more
BotIds == 1..(MaxBots + 1)

\* mutant of FlagsAfterSend: whatever the outcome, the warning counts as sent
FlagsAfterSendAlways(answer) == [sent |-> TRUE, approved |-> answer = "sent"]

\* lines 135, 142, 173, 179: the flags written once the reviewer has approved
FlagsAfterSend(answer) == [sent |-> answer = "sent", approved |-> TRUE]

\* mutant of ReturnsEarly: only a detection that is not found ends the command
ReturnsEarlyNotFound(result, answer) == IsNone(result)

\* lines 90-123: the command returns before it connects to Instagram: the
\* detection is not found (92), its warning was sent already (99), it has no
\* comment id (108), or the reviewer does not confirm (121)
ReturnsEarly(result, answer) ==
    \/ IsNone(result)
    \/ Val(result).warning_sent = 1 /\ Val(result).warning_approved = 1
    \/ IsNone(Val(result).comment_id)
    \/ answer = "declined"

\* lines 125-168: what becomes of platform.post_reply_comment: it is not
\* called, or it is called and fails, or it posts the warning
Reply(result, answer) ==
    IF ReturnsEarly(result, answer) \/ answer \in {"init_error", "login_failed"}
    THEN "not called"
    ELSE IF answer = "sent" THEN "posted" ELSE "failed"

\* lines 85-181
ApproveAndSendWarning(bot_id, answer) ==
    /\ LET result == GetBotDetails(bot_id)
           flags == FlagsAfterSend(answer)
       IN  /\ IF ReturnsEarly(result, answer)
              THEN UNCHANGED detected_bots
              ELSE detected_bots' =
                      UpdateBotWarningStatus(bot_id, flags.sent, flags.approved)
           /\ last_call' = [name |-> "approve_and_send_warning",
                            args |-> [bot_id |-> bot_id, answer |-> answer],
                            returned |-> None,
                            post_reply_comment |-> Reply(result, answer)]
    /\ UNCHANGED <<monitored_accounts, processed_posts, outside_db>>

\* lines 184-202
RejectDetection(bot_id) ==
    /\ IF IsNone(GetBotDetails(bot_id))
       THEN UNCHANGED detected_bots
       ELSE detected_bots' = UpdateBotWarningStatus(bot_id, FALSE, FALSE)
    /\ last_call' = Call("reject_detection", [bot_id |-> bot_id], None)
    /\ UNCHANGED <<monitored_accounts, processed_posts, outside_db>>

\* the tables as _initialize_database creates them, and no call made yet
DbEmpty ==
    /\ monitored_accounts = <<>>
    /\ processed_posts = <<>>
    /\ detected_bots = <<>>
    /\ last_call = Call("DatabaseManager", <<>>, None)

-----------------------------------------------------------------------------
(* src/tasks.py: the task process_instagram_post and its retries *)

\* line 77: max_retries=2
max_retries == 2

\* line 19: DEFAULT_BOT_THRESHOLD_TASK = 0.65
DEFAULT_BOT_THRESHOLD_TASK == 650

\* the comments platform.get_post_comments may return for a post (line 104):
\* the comments of that post, none or some of them, in any order
FetchedComments(post_id) ==
    LET of_post == {d \in Detections : d.post_id = post_id}
    IN  {q \in UNION {[1..n -> of_post] : n \in 0..Cardinality(of_post)} :
            \A i, j \in 1..Len(q) : i # j => q[i] # q[j]}

\* lines 36, 46: the comment is one the task stores a detection for
Flagged(comment) ==
    /\ ~IsNone(comment.comment_id)
    /\ comment.bot_likelihood >= DEFAULT_BOT_THRESHOLD_TASK

\* line 120: the value a successful attempt returns
SuccessResult ==
    [post_url |-> task_args.post_url, post_id |-> task_args.post_id,
     comments_analyzed |-> Len(task_comments),
     bots_found |-> Cardinality({i \in 1..Len(task_comments) : Flagged(task_comments[i])})]

\* line 140: the value the handler of MaxRetriesExceededError returns
FailedResult ==
    [post_url |-> task_args.post_url, status |-> "Failed after retries",
     error |-> Val(task_exc)]

\* line 135, self.retry(exc=exc): what the call raises. Retry when the task is
\* sent again with one retry more; once max_retries is exceeded, the exception
\* given as exc, and MaxRetriesExceededError only when none is given
RetryRaises(retries, exc) ==
    IF retries + 1 > max_retries
    THEN IF IsNone(exc) THEN "MaxRetriesExceededError" ELSE Val(exc)
    ELSE "Retry"

\* the run in progress ends as given
Ended(how) == [task_attempts EXCEPT ![Len(task_attempts)] = how]

\* lines 83-87: a worker takes the task and the body starts
TaskStart ==
    /\ task_name \in {"process_instagram_post", "process_account"}
    /\ task_pc = "queued"
    /\ task_pc' = "connect"
    /\ task_state' = "STARTED"
    /\ task_attempts' = Append(task_attempts, "running")
    /\ task_comments' = <<>>
    /\ task_index' = 0
    /\ task_platform' = None
    /\ UNCHANGED <<task_name, task_args, task_retries, task_exc, task_result>>
    /\ UNCHANGED <<call_vars, worker_vars, db_vars>>

\* mutant of LoginFailure: a failed login raises an exception that is retried
LoginFailureValueError == "ValueError"

\* lines 96 and 160: raise Ignore(...) when the platform is not authenticated
LoginFailure == "Ignore"

\* the try block raises exc: Ignore is handled by lines 122-127 and 206-209
\* (state FAILURE, raised again, the task is over), any other exception by
\* lines 128 and 210
Raised(exc) ==
    IF exc = "Ignore"
    THEN /\ task_pc' = "finished"
         /\ task_exc' = Some(exc)
         /\ task_state' = "FAILURE"
         /\ task_attempts' = Ended("ignore")
    ELSE /\ task_pc' = "except"
         /\ task_exc' = Some(exc)
         /\ UNCHANGED <<task_state, task_attempts>>

\* lines 93-98 and 157-160: InstagramPlatform() raises, or is not
\* authenticated, or is authenticated
TaskConnect(answer) ==
    /\ task_pc = "connect"
    /\ CASE answer = "init_error" ->
              /\ Raised("Exception")
              /\ UNCHANGED task_platform
         [] answer = "login_failed" ->
              /\ Raised(LoginFailure)
              /\ task_platform' = Some([is_authenticated |-> FALSE])
         [] OTHER ->
              /\ task_pc' = "fetch"
              /\ task_platform' = Some([is_authenticated |-> TRUE])
              /\ UNCHANGED <<task_exc, task_state, task_attempts>>
    /\ UNCHANGED <<task_name, task_args, task_retries, task_comments, task_index,
                   task_result>>
    /\ UNCHANGED <<call_vars, worker_vars, db_vars>>

\* lines 102-109: the comments are fetched, or get_post_comments raises or
\* gives no post id (ValueError)
TaskFetch(fetched) ==
    /\ task_name = "process_instagram_post"
    /\ task_pc = "fetch"
    /\ IF IsNone(fetched)
       THEN /\ task_pc' = "except"
            /\ task_exc' = Some("ValueError")
            /\ UNCHANGED task_comments
       ELSE /\ task_pc' = "record"
            /\ task_comments' = Val(fetched)
            /\ UNCHANGED task_exc
    /\ UNCHANGED <<task_name, task_platform, task_args, task_retries, task_state, task_index, task_result,
                   task_attempts>>
    /\ UNCHANGED <<call_vars, worker_vars, db_vars>>

\* mutant of TaskRecord: the analysis starts without the post being recorded
TaskRecordNotStored ==
    /\ task_pc = "record"
    /\ task_pc' = "analyse"
    /\ task_index' = 1
    /\ UNCHANGED <<task_name, task_platform, task_args, task_retries, task_state, task_comments, task_exc,
                   task_result, task_attempts>>
    /\ UNCHANGED <<call_vars, worker_vars, db_vars>>

\* line 113: the post is recorded before the analysis
TaskRecord ==
    /\ task_pc = "record"
    /\ InsertProcessedPost(task_args)
    /\ task_pc' = "analyse"
    /\ task_index' = 1
    /\ UNCHANGED <<task_name, task_platform, task_args, task_retries, task_state, task_comments, task_exc,
                   task_result, task_attempts>>
    /\ UNCHANGED <<monitored_accounts, detected_bots, call_vars, worker_vars>>

\* lines 32-54: one pass of the loop over the comments
TaskAnalyseComment ==
    /\ task_pc = "analyse"
    /\ task_index <= Len(task_comments)
    /\ IF Flagged(task_comments[task_index])
       THEN InsertDetectedBot(task_comments[task_index])
       ELSE UNCHANGED <<detected_bots, last_call>>
    /\ task_index' = task_index + 1
    /\ UNCHANGED <<task_name, task_platform, task_pc, task_args, task_retries, task_state, task_comments,
                   task_exc, task_result, task_attempts>>
    /\ UNCHANGED <<monitored_accounts, processed_posts, call_vars, worker_vars>>

\* lines 32-34: a comment that is no dict makes comment.get raise outside the
\* try of the loop
TaskAnalysisError ==
    /\ task_pc = "analyse"
    /\ task_pc' = "except"
    /\ task_exc' = Some("AttributeError")
    /\ UNCHANGED <<task_name, task_platform, task_args, task_retries, task_state, task_comments, task_index,
                   task_result, task_attempts>>
    /\ UNCHANGED <<call_vars, worker_vars, db_vars>>

\* lines 119-120: the analysis is over and the attempt returns its result
TaskReturn ==
    /\ task_pc = "analyse"
    /\ task_index > Len(task_comments)
    /\ task_pc' = "finished"
    /\ task_state' = "SUCCESS"
    /\ task_result' = Some(SuccessResult)
    /\ task_attempts' = Ended("ok")
    /\ UNCHANGED <<task_name, task_platform, task_args, task_retries, task_comments, task_index, task_exc>>
    /\ UNCHANGED <<call_vars, worker_vars, db_vars>>

\* lines 128-140: the handler of an exception other than Ignore calls
\* self.retry(exc=exc). Retry leaves the task, which is queued again; the
\* handler of line 136 catches MaxRetriesExceededError alone, sets FAILURE and
\* returns, and a task that returns is stored with its value; any other
\* exception leaves the task, which is stored as failed with it
TaskRetry ==
    /\ task_name = "process_instagram_post"
    /\ task_pc = "except"
    /\ LET raised == RetryRaises(task_retries, task_exc)
       IN  CASE raised = "Retry" ->
                  /\ task_pc' = "queued"
                  /\ task_retries' = task_retries + 1
                  /\ task_state' = "RETRY"
                  /\ task_exc' = None
                  /\ UNCHANGED task_result
             [] raised = "MaxRetriesExceededError" ->
                  /\ task_pc' = "finished"
                  /\ task_state' = "SUCCESS"
                  /\ task_result' = Some(FailedResult)
                  /\ UNCHANGED <<task_retries, task_exc>>
             [] OTHER ->
                  /\ task_pc' = "finished"
                  /\ task_state' = "FAILURE"
                  /\ UNCHANGED <<task_retries, task_exc, task_result>>
    /\ task_attempts' = Ended("error")
    /\ UNCHANGED <<task_name, task_platform, task_args, task_comments, task_index>>
    /\ UNCHANGED <<call_vars, worker_vars, db_vars>>

\* the posts platform.get_user_posts may return for an account (line 168):
\* none or some of its posts
FetchedPosts(u) ==
    LET urls == {a.post_url : a \in {b \in PostArgs : b.monitored_account = u}}
    IN  {q \in UNION {[1..n -> urls] : n \in 0..Cardinality(urls)} :
            \A i, j \in 1..Len(q) : i # j => q[i] # q[j]}

\* lines 174 and 202: the result process_account returns
AccountResult(post_urls) ==
    IF post_urls = <<>>
    THEN [username |-> task_args.username, status |-> "No posts found"]
    ELSE [username |-> task_args.username, dispatched_post_task_ids |-> post_urls]

\* lines 168-202 of process_account: get_user_posts raises, or the posts are
\* fetched, a task is dispatched for each, last_checked is updated and the
\* task returns
AccountPosts(fetched, timestamp) ==
    /\ task_name = "process_account"
    /\ task_pc = "fetch"
    /\ IF IsNone(fetched)
       THEN /\ task_pc' = "except"
            /\ task_exc' = Some("Exception")
            /\ UNCHANGED <<task_state, task_result, task_attempts, db_vars>>
       ELSE /\ SetLastChecked(task_args.username, timestamp)
            /\ task_pc' = "finished"
            /\ task_state' = "SUCCESS"
            /\ task_result' = Some(AccountResult(Val(fetched)))
            /\ task_attempts' = Ended("ok")
            /\ UNCHANGED <<task_exc, processed_posts, detected_bots>>
    /\ UNCHANGED <<task_name, task_platform, task_args, task_retries, task_comments, task_index>>
    /\ UNCHANGED <<call_vars, worker_vars>>

\* lines 210-218 of process_account: an exception other than Ignore is not
\* retried; the handler sets FAILURE and returns, and a task that returns is
\* stored with its value
AccountFailed ==
    /\ task_name = "process_account"
    /\ task_pc = "except"
    /\ task_pc' = "finished"
    /\ task_state' = "SUCCESS"
    /\ task_result' = Some([username |-> task_args.username, status |-> "Failed",
                            error |-> Val(task_exc)])
    /\ task_attempts' = Ended("error")
    /\ UNCHANGED <<task_name, task_platform, task_args, task_retries, task_comments, task_index,
                   task_exc>>
    /\ UNCHANGED <<call_vars, worker_vars, db_vars>>

-----------------------------------------------------------------------------
(* monitor.py, check_for_new_posts: the same pipeline run as a script *)

\* monitor.py line 18: the default threshold of check_for_new_posts
bot_threshold == 600

\* monitor.py line 126, tasks.py line 46: the comparison that decides whether
\* db.add_detected_bot is called for the commenter
BotDetected(likelihood, threshold) == likelihood >= threshold

\* manager.py lines 135-160, called by line 43: the active accounts
ActiveAccounts == OrderByUsername(Rows(monitored_accounts, "active", 1))

\* lines 79 and 179 of instagram.py: the comments of a post as
\* get_post_comments formats them, each with its id
MonitorComments(post_id) ==
    {q \in FetchedComments(post_id) : \A i \in 1..Len(q) : ~IsNone(q[i].comment_id)}

\* lines 33-47: login() fails and the script returns; or the active accounts
\* are read and the script returns when there is none
MonitorLogin(logged_in) ==
    /\ task_name = "check_for_new_posts"
    /\ task_pc = "queued"
    /\ IF logged_in
       THEN /\ last_call' = Call("get_monitored_accounts", [active_only |-> TRUE],
                                 Some(ActiveAccounts))
            /\ task_pc' = IF ActiveAccounts = <<>> THEN "finished" ELSE "posts"
       ELSE /\ task_pc' = "finished"
            /\ UNCHANGED last_call
    /\ UNCHANGED <<task_name, task_platform, task_args, task_retries, task_state, task_comments,
                   task_index, task_exc, task_result, task_attempts>>
    /\ UNCHANGED <<monitored_accounts, processed_posts, detected_bots, call_vars, worker_vars>>

\* lines 74-101: one post of an account. Without a post id, or with a post id
\* processed_posts holds already, the loop goes on to the next post; a new
\* post is stored before its comments are analysed
MonitorPost(a, fetched) ==
    /\ task_name = "check_for_new_posts"
    /\ task_pc = "posts"
    /\ \E i \in 1..Len(monitored_accounts) :
          /\ monitored_accounts[i].active = 1
          /\ monitored_accounts[i].username = a.monitored_account
    /\ IF IsNone(fetched) \/ PostIdTaken(a.post_id)
       THEN UNCHANGED <<task_pc, task_comments, task_index, processed_posts, last_call>>
       ELSE /\ InsertProcessedPost([a EXCEPT !.platform = task_args.platform_name])
            /\ task_comments' = Val(fetched)
            /\ task_index' = 1
            /\ task_pc' = "comments"
    /\ UNCHANGED <<task_name, task_platform, task_args, task_retries, task_state, task_exc,
                   task_result, task_attempts>>
    /\ UNCHANGED <<monitored_accounts, detected_bots, call_vars, worker_vars>>

\* lines 110-141: one pass of the loop over the comments
MonitorComment ==
    /\ task_name = "check_for_new_posts"
    /\ task_pc = "comments"
    /\ task_index <= Len(task_comments)
    /\ IF BotDetected(task_comments[task_index].bot_likelihood, bot_threshold)
       THEN InsertDetectedBot(MonitorDetection(task_comments[task_index]))
       ELSE UNCHANGED <<detected_bots, last_call>>
    /\ task_index' = task_index + 1
    /\ UNCHANGED <<task_name, task_platform, task_pc, task_args, task_retries, task_state,
                   task_comments, task_exc, task_result, task_attempts>>
    /\ UNCHANGED <<monitored_accounts, processed_posts, call_vars, worker_vars>>

\* lines 148-159: the comments of the post are done, the loop goes on to the
\* next post
MonitorPostDone ==
    /\ task_name = "check_for_new_posts"
    /\ task_pc = "comments"
    /\ task_index > Len(task_comments)
    /\ task_pc' = "posts"
    /\ UNCHANGED <<task_name, task_platform, task_args, task_retries, task_state, task_comments,
                   task_index, task_exc, task_result, task_attempts>>
    /\ UNCHANGED <<call_vars, worker_vars, db_vars>>

\* lines 161-162: an exception in the analysis of a comment ends the work on
\* the account, the loop goes on to the next account
MonitorError ==
    /\ task_name = "check_for_new_posts"
    /\ task_pc = "comments"
    /\ task_index <= Len(task_comments)
    /\ task_pc' = "posts"
    /\ task_exc' = Some("Exception")
    /\ UNCHANGED <<task_name, task_platform, task_args, task_retries, task_state, task_comments,
                   task_index, task_result, task_attempts>>
    /\ UNCHANGED <<call_vars, worker_vars, db_vars>>

\* lines 167-176: every account is done, the summary is printed
MonitorDone ==
    /\ task_name = "check_for_new_posts"
    /\ task_pc = "posts"
    /\ task_pc' = "finished"
    /\ UNCHANGED <<task_name, task_platform, task_args, task_retries, task_state, task_comments,
                   task_index, task_exc, task_result, task_attempts>>
    /\ UNCHANGED <<call_vars, worker_vars, db_vars>>

\* no task has been dispatched
TaskIdle ==
    /\ task_name = "none"
    /\ task_pc = "none"
    /\ task_platform = None
    /\ task_args = None
    /\ task_retries = 0
    /\ task_state = "PENDING"
    /\ task_comments = <<>>
    /\ task_index = 0
    /\ task_exc = None
    /\ task_result = None
    /\ task_attempts = <<>>

-----------------------------------------------------------------------------
(* States in which a part of the program is not in use *)

\* nothing but the single call is in use
EnvIdle == WorkersIdle /\ DbEmpty /\ TaskIdle

\* no single call is in progress
CallIdle ==
    /\ op = "none" /\ pc = "done" /\ attempt = "again" /\ prev = None
    /\ username = <<>> /\ comment_text = None /\ user_data = None
    /\ text_pattern_score = 0 /\ behavioral_score = 0 /\ profile_score = 0
    /\ bot_indicators = <<>> /\ ret = None
    /\ comments = <<>> /\ comment_groups = <<>> /\ networks = None

-----------------------------------------------------------------------------
(* The caller: a task that is run again calls with the same arguments *)

Result == IF op = "score" THEN ret ELSE networks

\* the function is entered with the same arguments once more; its locals are
\* set as lines 26-31 (the scorer) and line 131 (the detector) set them
CallAgain ==
    /\ pc = "done"
    /\ attempt = "first"
    /\ attempt' = "again"
    /\ prev' = Result
    /\ IF op = "score"
       THEN /\ pc' = "text"
            /\ text_pattern_score' = InitialScore
            /\ behavioral_score' = InitialScore
            /\ profile_score' = InitialScore
            /\ bot_indicators' = InitialIndicators
            /\ ret' = None
            /\ UNCHANGED <<username, comment_text, user_data, coord_vars>>
       ELSE /\ pc' = "group"
            /\ comment_groups' = InitialGroups
            /\ networks' = None
            /\ UNCHANGED <<comments, scorer_vars>>
    /\ UNCHANGED <<op, env_vars>>

\* the first call: the arguments, and the locals as the function sets them on entry
Init ==
    /\ attempt = "first"
    /\ prev = None
    /\ text_pattern_score = 0
    /\ behavioral_score = 0
    /\ profile_score = 0
    /\ bot_indicators = <<>>
    /\ ret = None
    /\ comment_groups = <<>>
    /\ networks = None
    /\ EnvIdle
    /\ \/ /\ op = "score"
          /\ pc = "text"
          /\ username \in Usernames
          /\ comment_text \in CommentTexts
          /\ user_data \in UserDatas
          /\ comments = <<>>
       \/ /\ op = "coord"
          /\ pc = "group"
          /\ username = <<>>
          /\ comment_text = None
          /\ user_data = None
          /\ comments \in CommentSeqs

Next ==
    \/ TextAnalysis
    \/ VerifiedCheck
    \/ BehavioralAnalysis
    \/ ProfileAnalysis
    \/ UsernameAnalysis
    \/ Combine
    \/ GroupComments
    \/ FindNetworks
    \/ CallAgain

Spec == Init /\ [][Next]_vars

\* calls that pass a username and no usable comment or profile
InitUsername ==
    /\ attempt = "first"
    /\ prev = None
    /\ text_pattern_score = 0
    /\ behavioral_score = 0
    /\ profile_score = 0
    /\ bot_indicators = <<>>
    /\ ret = None
    /\ comment_groups = <<>>
    /\ networks = None
    /\ EnvIdle
    /\ op = "score"
    /\ pc = "text"
    /\ username \in AllUsernames
    /\ comment_text \in {None, Some(<<>>)}
    /\ user_data \in {None, Some(<<>>)}
    /\ comments = <<>>

NextUsername ==
    \/ TextAnalysis
    \/ VerifiedCheck
    \/ UsernameAnalysis
    \/ Combine
    \/ CallAgain

SpecUsername == InitUsername /\ [][NextUsername]_vars

\* every worker is about to make a call; the argument objects are shared
InitWorkers ==
    /\ CallIdle
    /\ frames \in [Workers -> WorkerCalls]
    /\ local_objects = [c \in LocalCells |-> <<>>]
    /\ arg_objects = ArgObjects
    /\ DbEmpty
    /\ TaskIdle

NextWorkers ==
    \E w \in Workers :
        \/ WorkerEnter(w)
        \/ WorkerText(w)
        \/ WorkerVerified(w)
        \/ WorkerBehavioral(w)
        \/ WorkerProfile(w)
        \/ WorkerUsername(w)
        \/ WorkerCombine(w)
        \/ WorkerGroup(w)
        \/ WorkerNetworks(w)
        \/ WorkerNextCall(w)

SpecWorkers == InitWorkers /\ [][NextWorkers]_vars

\* the account table of a database just created, and the calls of add_account.py
\* and of the tasks on it
InitAccounts == CallIdle /\ WorkersIdle /\ DbEmpty /\ TaskIdle

NextAccounts ==
    \/ \E u \in AccountNames, platform \in Platforms : AddMonitoredAccount(u, platform)
    \/ \E active_only \in BOOLEAN : GetMonitoredAccounts(active_only)
    \/ \E u \in AccountNames, active \in BOOLEAN : UpdateAccountStatus(u, active)
    \/ \E u \in AccountNames, timestamp \in Times : UpdateLastChecked(u, timestamp)

SpecAccounts == InitAccounts /\ [][NextAccounts]_vars

\* the post and detection tables of a database just created, the calls the
\* monitor makes on them and the commands of the reviewer
InitDetections == CallIdle /\ WorkersIdle /\ DbEmpty /\ TaskIdle

NextDetections ==
    \/ \E a \in PostArgs : AddProcessedPost(a)
    \/ \E post_id \in PostIds : CheckIfPostProcessed(post_id)
    \/ \E d \in Detections : AddDetectedBot(d)
    \/ \E bot_id \in BotIds, answer \in Answers : ApproveAndSendWarning(bot_id, answer)
    \/ \E bot_id \in BotIds : RejectDetection(bot_id)

SpecDetections == InitDetections /\ [][NextDetections]_vars

\* a task has been dispatched: process_instagram_post for a post, on a database
\* just created, or process_account for an account add_account.py has added;
\* or monitor.py has been started on the accounts add_account.py has added
InitTask ==
    /\ CallIdle
    /\ WorkersIdle
    /\ processed_posts = <<>>
    /\ detected_bots = <<>>
    /\ last_call = Call("DatabaseManager", <<>>, None)
    /\ \/ /\ task_name = "process_instagram_post"
          /\ task_args \in PostArgs
          /\ monitored_accounts = <<>>
       \/ /\ task_name = "process_account"
          /\ task_args \in {[username |-> u, platform_name |-> "instagram"] : u \in AccountNames}
          /\ monitored_accounts = <<AccountRow(task_args.username, task_args.platform_name)>>
       \/ /\ task_name = "check_for_new_posts"
          /\ task_args = [platform_name |-> "instagram"]
          /\ monitored_accounts \in
                {<<>>, <<AccountRow("test_account", "instagram")>>,
                 <<AccountRow("test_account", "instagram"),
                   AccountRow("other_account", "instagram")>>,
                 <<AccountRow("unknown_user", "instagram"),
                   AccountRow("test_account", "instagram")>>}
    /\ task_pc = "queued"
    /\ task_platform = None
    /\ task_retries = 0
    /\ task_state = "PENDING"
    /\ task_comments = <<>>
    /\ task_index = 0
    /\ task_exc = None
    /\ task_result = None
    /\ task_attempts = <<>>

NextTask ==
    \/ TaskStart
    \/ \E answer \in {"init_error", "login_failed", "logged_in"} : TaskConnect(answer)
    \/ \E fetched \in IF task_name = "process_instagram_post"
                       THEN {None} \cup {Some(q) : q \in FetchedComments(task_args.post_id)}
                       ELSE {} :
          TaskFetch(fetched)
    \/ TaskRecord
    \/ TaskAnalyseComment
    \/ TaskAnalysisError
    \/ TaskReturn
    \/ TaskRetry
    \/ \E fetched \in IF task_name = "process_account"
                       THEN {None} \cup {Some(q) : q \in FetchedPosts(task_args.username)}
                       ELSE {},
          timestamp \in Times :
          AccountPosts(fetched, timestamp)
    \/ AccountFailed
    \/ \E logged_in \in BOOLEAN : MonitorLogin(logged_in)
    \/ \E a \in PostArgs :
          \E fetched \in {None} \cup {Some(q) : q \in MonitorComments(a.post_id)} :
             MonitorPost(a, fetched)
    \/ MonitorComment
    \/ MonitorPostDone
    \/ MonitorError
    \/ MonitorDone

SpecTask == InitTask /\ [][NextTask]_vars

-----------------------------------------------------------------------------
(* Properties *)

ScoreReturned == op = "score" /\ pc = "done"
Likelihood == Val(ret).likelihood
Indicators == Val(ret).indicators

\* the profile given has is_verified true
VerifiedInput == ~IsNone(user_data) /\ DictGet(Val(user_data), "is_verified", FALSE)

\* C1: every value the scorer returns has 0 <= likelihood <= 0.99.
C1_LikelihoodInRange ==
    ScoreReturned => 0 <= Likelihood /\ Likelihood <= 990

\* C1 witness: a comment alone whose text score is 1.0 is returned as 0.99.
C1_Witness ==
    /\ ScoreReturned
    /\ IsNone(user_data)
    /\ text_pattern_score = 1000
    /\ Likelihood = 990

\* C2: a profile with is_verified true gives exactly 0.05 and
\* {verified_account: True}, whatever the other inputs are.
C2_VerifiedExact ==
    (ScoreReturned /\ VerifiedInput) =>
        /\ Likelihood = 50
        /\ DOMAIN Indicators = {"verified_account"}
        /\ Indicators["verified_account"] = TRUE

\* C2 witness: a verified profile without picture, with regular posting, a
\* comment full of text signals and a suspicious username.
C2_Witness ==
    /\ ScoreReturned
    /\ VerifiedInput
    /\ text_pattern_score = 1000
    /\ "suspicious_phrases" \in DOMAIN bot_indicators
    /\ suspicious_username_of[username]
    /\ DictGet(Val(user_data), "has_profile_pic", TRUE) = FALSE
    /\ DictGet(Val(user_data), "posting_regularity", 1000) = 500

C4_Combination ==
    (ScoreReturned /\ ~VerifiedInput) =>
        LET hasText == CommentGiven(comment_text)
            hasData == UserDataGiven(user_data)
            t == text_pattern_score
            b == behavioral_score
            p == profile_score
            combined ==
                CASE hasText /\ hasData -> 4 * t + 4 * b + 2 * p
                  [] ~hasText /\ hasData -> 6 * b + 4 * p
                  [] hasText /\ ~hasData -> 10 * t
                  [] ~hasText /\ ~hasData -> 10 * p
        IN  10 * Likelihood = Min(combined, 9900)

\* C4 witness: comment and profile both given, every sub-score positive.
C4_Witness ==
    /\ ScoreReturned
    /\ ~VerifiedInput
    /\ CommentGiven(comment_text)
    /\ UserDataGiven(user_data)
    /\ text_pattern_score = 250
    /\ behavioral_score = 600
    /\ profile_score = 600
    /\ Likelihood = 460

\* the profile fields each signal of the behavioural and profile-shape
\* analysis depends on
SignalFields ==
    [suspiciously_regular_posting |-> {"posting_regularity"},
     extremely_low_engagement |-> {"avg_engagement_rate"},
     high_following_ratio |-> {"follower_count", "following_count"},
     excessive_post_volume |-> {"post_count", "follower_count"}]

\* C5: the scorer does not raise, and no signal that depends on a profile
\* field fires when that field is absent from the profile.
C5_AbsentFieldNoSignal ==
    /\ op = "score" => pc # "raised"
    /\ (op = "score" /\ ~IsNone(user_data)) =>
          \A k \in DOMAIN SignalFields :
              k \in DOMAIN bot_indicators => SignalFields[k] \subseteq DOMAIN Val(user_data)

\* the usernames of the input comments whose text normalizes to t, the number
\* of these comments, and the expected normal form of each pool text
ExpectedNormalForm ==
    (DealText :> Chars("check this out!"))
        @@ (DealTextVariant :> Chars("check this out!"))
        @@ (DealTextUpper :> Chars("check this out!"))
        @@ (ShortText :> Chars("so cool!!"))
        @@ (ShortTextVariant :> Chars("so cool!!"))
        @@ (OtherText :> Chars("this looks interesting!"))
        @@ (OtherTextVariant :> Chars("this looks interesting!"))
NormalText(i) == ExpectedNormalForm[comments[i]["text"]]
CommentsWith(t) == {i \in 1..Len(comments) : NormalText(i) = t}
UsersWith(t) == {comments[i]["username"] : i \in CommentsWith(t)}
InputTexts == {NormalText(i) : i \in 1..Len(comments)}
CoordReturned == op = "coord" /\ pc = "done"
Clusters == Val(networks)

\* C6: every cluster returned has at least 2 distinct usernames, all of them
\* authors of the text in the input, and a normalized text of length >= 10.
C6_ClusterShape ==
    CoordReturned =>
        \A i \in 1..Len(Clusters) :
            /\ Cardinality(Clusters[i].users) >= 2
            /\ Clusters[i].text \in InputTexts
            /\ Clusters[i].users \subseteq UsersWith(Clusters[i].text)
            /\ Len(Clusters[i].text) >= 10

\* C6 witness: a short text repeated by two users gives no cluster, beside a
\* text of 15 characters by two users that does.
C6_Witness ==
    /\ CoordReturned
    /\ Cardinality(UsersWith(Chars("so cool!!"))) = 2
    /\ Cardinality(UsersWith(Chars("check this out!"))) = 2
    /\ Len(Clusters) = 1
    /\ Clusters[1].text = Chars("check this out!")

\* C7: exactly one cluster for every trimmed, lowercased text of length >= 10
\* written by at least 2 distinct usernames, with users the set of these
\* usernames; no other cluster.
C7_Grouping ==
    CoordReturned =>
        LET expected == {t \in InputTexts : Len(t) >= 10 /\ Cardinality(UsersWith(t)) >= 2}
        IN  /\ Len(Clusters) = Cardinality(expected)
            /\ {<<Clusters[i].text, Clusters[i].users>> : i \in 1..Len(Clusters)}
                  = {<<t, UsersWith(t)>> : t \in expected}

\* C7 witness: three distinct users share one text written in three ways,
\* one comment is unique: one cluster with 3 users.
C7_Witness ==
    /\ CoordReturned
    /\ Len(comments) = 4
    /\ {comments[i]["text"] : i \in 1..3} = {DealText, DealTextVariant, DealTextUpper}
    /\ comments[4]["text"] = OtherText
    /\ Len(Clusters) = 1
    /\ Cardinality(Clusters[1].users) = 3

\* C8: comment_count is the number of comments of the group, repeats by one
\* user included, and confidence = min(0.5 + 0.1 * comment_count, 0.9): within
\* [0.5, 0.9], 0.7 for two comments, in (0.7, 0.9] for three or more.
C8_Confidence ==
    CoordReturned =>
        \A i \in 1..Len(Clusters) :
            LET n == Clusters[i].comment_count
                c == Clusters[i].confidence
            IN  /\ n = Cardinality(CommentsWith(Clusters[i].text))
                /\ c = Min(500 + 100 * n, 900)
                /\ 500 <= c /\ c <= 900
                /\ n = 2 => c = 700
                /\ n >= 3 => (700 < c /\ c <= 900)

\* C8 witness: five comments by two users in one group: the cap is reached.
C8_Witness ==
    /\ CoordReturned
    /\ Len(Clusters) = 1
    /\ Clusters[1].comment_count = 5
    /\ Cardinality(Clusters[1].users) = 2
    /\ Clusters[1].confidence = 900

\* the comments without their created_at key
WithoutTimestamp(c) == [k \in (DOMAIN c) \ {"created_at"} |-> c[k]]
WithoutTimestamps(cs) == [i \in 1..Len(cs) |-> WithoutTimestamp(cs[i])]

\* C9: the detector does not raise on comments whose created_at is absent or
\* malformed, returns [] for no comment and for one comment, and returns what
\* it returns for the same comments without any timestamp.
C9_EmptyAndTimestamps ==
    op = "coord" =>
        /\ pc # "raised"
        /\ pc = "done" =>
              /\ Len(comments) <= 1 => Clusters = <<>>
              /\ Clusters = NetworksFrom(GroupFrom(InitialGroups, WithoutTimestamps(comments), 1), 1)

\* C9 witness: a cluster whose comments have an absent and a malformed
\* timestamp.
C9_Witness ==
    /\ CoordReturned
    /\ Len(Clusters) = 1
    /\ \E i, j \in 1..Len(comments) :
          /\ "created_at" \notin DOMAIN comments[i]
          /\ DictGet(comments[j], "created_at", "") = "13:00 ??"
          /\ NormalText(i) = Clusters[1].text
          /\ NormalText(j) = Clusters[1].text

\* the text step has run in this call
TextAnalysed == op = "score" /\ pc \in {"verified", "behavioral", "profile", "username", "combine", "done"}

\* C10: text score = min(0.1 * phrases, 0.5) + (min(0.05 * (emoji - 5), 0.2) if
\* emoji > 5) + (0.3 if a URL); each of suspicious_phrases (the phrases),
\* excessive_emojis (the count), contains_urls is recorded exactly when its
\* term is not zero; phrases match whatever the case; with username and
\* comment only, phrases, 6 emoji or more and a URL give the three indicators
\* and a likelihood above 0.2.
C10_TextScore ==
    (TextAnalysed /\ CommentGiven(comment_text)) =>
        LET text == Val(comment_text)
            phrases == phrase_matches_of[text]
            emoji == emoji_count_of[text]
            url == urls_of[text]
            phrase_term == Min(100 * Len(phrases), 500)
            emoji_term == IF emoji > 5 THEN Min(50 * (emoji - 5), 200) ELSE 0
            url_term == IF url THEN 300 ELSE 0
        IN  /\ text_pattern_score = phrase_term + emoji_term + url_term
            /\ "suspicious_phrases" \in DOMAIN bot_indicators <=> phrase_term # 0
            /\ phrase_term # 0 => bot_indicators["suspicious_phrases"] = phrases
            /\ "excessive_emojis" \in DOMAIN bot_indicators <=> emoji_term # 0
            /\ emoji_term # 0 => bot_indicators["excessive_emojis"] = emoji
            /\ "contains_urls" \in DOMAIN bot_indicators <=> url_term # 0
            /\ text = LinkText => phrases = <<Chars("dm me"), Chars("link in bio")>>
            /\ (pc = "done" /\ IsNone(user_data) /\ Len(phrases) > 0 /\ emoji >= 6 /\ url) =>
                  /\ {"suspicious_phrases", "excessive_emojis", "contains_urls"}
                        \subseteq DOMAIN Indicators
                  /\ Likelihood > 200

\* C10 witness: a comment alone with six phrases, ten emoji and a URL.
C10_Witness ==
    /\ ScoreReturned
    /\ IsNone(user_data)
    /\ CommentGiven(comment_text)
    /\ Len(phrase_matches_of[Val(comment_text)]) = 6
    /\ emoji_count_of[Val(comment_text)] = 10
    /\ urls_of[Val(comment_text)]
    /\ text_pattern_score = 1000
    /\ {"suspicious_phrases", "excessive_emojis", "contains_urls"} \subseteq DOMAIN Indicators

\* the behavioural step has run in this call, or was skipped for want of a profile
BehaviourAnalysed == op = "score" /\ pc \in {"profile", "username", "combine", "done"}

\* C11: for a profile that is not verified the behavioural sub-score is 0.3
\* (suspiciously_regular_posting) exactly when posting_regularity is present
\* and < 1, plus 0.3 (extremely_low_engagement) exactly when
\* avg_engagement_rate is present and < 0.5; the values 1 and 0.5 themselves do
\* not fire; the sub-score is one of 0, 0.3, 0.6.
C11_BehaviouralScore ==
    (BehaviourAnalysed /\ ~VerifiedInput) =>
        LET d == IF UserDataGiven(user_data) THEN Val(user_data) ELSE <<>>
            regular == "posting_regularity" \in DOMAIN d /\ d["posting_regularity"] < 1000
            low == "avg_engagement_rate" \in DOMAIN d /\ d["avg_engagement_rate"] < 500
        IN  /\ behavioral_score = (IF regular THEN 300 ELSE 0) + (IF low THEN 300 ELSE 0)
            /\ behavioral_score \in {0, 300, 600}
            /\ "suspiciously_regular_posting" \in DOMAIN bot_indicators <=> regular
            /\ regular => bot_indicators["suspiciously_regular_posting"] = TRUE
            /\ "extremely_low_engagement" \in DOMAIN bot_indicators <=> low
            /\ low => bot_indicators["extremely_low_engagement"] = TRUE
            /\ pc = "done" =>
                  /\ "suspiciously_regular_posting" \in DOMAIN Indicators <=> regular
                  /\ "extremely_low_engagement" \in DOMAIN Indicators <=> low

\* C11 witness: posting_regularity 0.5 fires and avg_engagement_rate at the
\* boundary 0.5 does not: the call returns with a sub-score of 0.3.
C11_Witness ==
    /\ ScoreReturned
    /\ UserDataGiven(user_data)
    /\ ~VerifiedInput
    /\ DictGet(Val(user_data), "posting_regularity", 0) = 500
    /\ DictGet(Val(user_data), "avg_engagement_rate", 0) = 500
    /\ behavioral_score = 300
    /\ DOMAIN Indicators \cap {"suspiciously_regular_posting", "extremely_low_engagement"}
          = {"suspiciously_regular_posting"}

\* the profile-shape step has run in this call, or was skipped for want of a profile
ProfileAnalysed == op = "score" /\ pc \in {"username", "combine", "done"}

\* C12: for a profile that is not verified the profile-shape sub-score is 0.2
\* (high_following_ratio) exactly when following_count / follower_count > 10,
\* plus 0.1 (excessive_post_volume) exactly when post_count > 1000 and
\* follower_count < 1000, plus 0.2 (no_profile_pic) exactly when
\* has_profile_pic is false; a condition on a field the profile does not
\* carry is not met; 100 followers, more than 1000 following and no picture
\* give high_following_ratio and no_profile_pic.
C12_ProfileShapeScore ==
    (ProfileAnalysed /\ ~VerifiedInput) =>
        LET d == IF UserDataGiven(user_data) THEN Val(user_data) ELSE <<>>
            ratio == /\ {"follower_count", "following_count"} \subseteq DOMAIN d
                     /\ d["follower_count"] > 0
                     /\ d["following_count"] > 10 * d["follower_count"]
            volume == /\ {"post_count", "follower_count"} \subseteq DOMAIN d
                      /\ d["post_count"] > 1000
                      /\ d["follower_count"] < 1000
            nopic == "has_profile_pic" \in DOMAIN d /\ d["has_profile_pic"] = FALSE
        IN  /\ pc = "username" =>
                  profile_score = (IF ratio THEN 200 ELSE 0) + (IF volume THEN 100 ELSE 0)
                                    + (IF nopic THEN 200 ELSE 0)
            /\ "high_following_ratio" \in DOMAIN bot_indicators <=> ratio
            /\ "excessive_post_volume" \in DOMAIN bot_indicators <=> volume
            /\ "no_profile_pic" \in DOMAIN bot_indicators <=> nopic
            /\ (/\ DictGet(d, "follower_count", 0) = 100
                /\ DictGet(d, "following_count", 0) > 1000
                /\ nopic)
                  => {"high_following_ratio", "no_profile_pic"} \subseteq DOMAIN bot_indicators

\* the usernames of the inputs whose lower-case form ends in "bot", "follow",
\* "auto" or four digits, written out by hand
EndingSuspicious ==
    {Chars("follow_me_2023"), Chars("SpamBot"), Chars("bot"), Chars("AUTO"),
     Chars("i_Follow"), Chars("x12345")}

\* the call was given a username and neither a comment nor a profile
UsernameOnly == ~CommentGiven(comment_text) /\ ~UserDataGiven(user_data)

\* C13: with a username alone the scorer returns 0.1 and
\* {suspicious_username: true} exactly when the lower-case username ends in
\* "bot", "follow", "auto" or four digits, and 0 with no indicator otherwise;
\* "follow_me_2023" gives suspicious_username and 0.05 < score < 0.5.
C13_UsernameOnly ==
    (ScoreReturned /\ UsernameOnly) =>
        /\ username \in EndingSuspicious =>
              Likelihood = 100 /\ Indicators = ("suspicious_username" :> TRUE)
        /\ username \notin EndingSuspicious =>
              Likelihood = 0 /\ DOMAIN Indicators = {}
        /\ username = Chars("follow_me_2023") =>
              /\ "suspicious_username" \in DOMAIN Indicators
              /\ 50 < Likelihood /\ Likelihood < 500

\* C13 witness: "autofollower" carries two endings, neither at its end, and
\* the call with it alone has returned 0 and no indicator.
C13_Witness ==
    /\ ScoreReturned
    /\ IsNone(comment_text) /\ IsNone(user_data)
    /\ username = Chars("autofollower")
    /\ Likelihood = 0
    /\ DOMAIN Indicators = {}

\* every key of the indicators old is a key of new, with the same evidence
Kept(old, new) == \A k \in DOMAIN old : k \in DOMAIN new /\ new[k] = old[k]

\* a step of a call of the scorer that has not returned yet
ScorerStep == op = "score" /\ pc # "done"

\* C14: a signal is never removed once detected, only added: no step of the
\* scorer (text, verified check, behavioural, profile-shape, username) removes
\* or changes an indicator an earlier step recorded, and the indicators the
\* call returns carry all of them, with the same evidence.
C14_NeverRemoved ==
    [][ScorerStep =>
          /\ Kept(bot_indicators, bot_indicators')
          /\ pc' = "done" => Kept(bot_indicators, Val(ret').indicators)]_vars

\* C14 as amended: no step removes or changes an indicator an earlier step
\* recorded; a call that is not cut short by the verified check returns all of
\* them with the same evidence, and a call for a verified profile returns
\* {verified_account: true} alone, without the indicators the text step
\* recorded.
C14_NeverRemovedUnlessVerified ==
    [][ScorerStep =>
          /\ Kept(bot_indicators, bot_indicators')
          /\ (pc' = "done" /\ ~VerifiedInput) => Kept(bot_indicators, Val(ret').indicators)
          /\ (pc' = "done" /\ VerifiedInput) =>
                Val(ret').indicators = ("verified_account" :> TRUE)]_vars

\* C14 witness: a call for a profile that is not verified has returned
\* indicators recorded by the text, behavioural, profile-shape and username
\* steps together.
C14_Witness ==
    /\ ScoreReturned
    /\ ~VerifiedInput
    /\ {"suspicious_phrases", "excessive_emojis", "contains_urls",
        "suspiciously_regular_posting", "extremely_low_engagement",
        "high_following_ratio", "excessive_post_volume", "no_profile_pic",
        "suspicious_username"} \subseteq DOMAIN Indicators
    /\ Indicators = bot_indicators

\* the call a frame belongs to: the frame as it was before its first statement
CallOf(f) == Frame(f.op, f.username, f.comment_text, f.data)

\* C15: the scorer and the detector keep no state across calls and do not
\* modify their arguments: with any number of workers running calls at the
\* same time, in any interleaving of their steps, a call that has returned
\* has returned what the same call returns when run alone, and the profile
\* and comment-list objects passed are as they were.
C15_ConcurrentCalls ==
    /\ \A w \in DOMAIN frames :
          frames[w].pc = "done" => frames[w].ret = alone_result_of[CallOf(frames[w])]
    /\ DOMAIN frames # {} => arg_objects = ArgObjects

\* C15 witness: two workers were given the same profile object and ran at the
\* same time; the first has returned all nine indicators while the second is
\* still between its steps, its own indicators partly recorded.
C15_Witness ==
    /\ DOMAIN frames = Workers
    /\ frames[1].op = "score" /\ frames[1].pc = "done"
    /\ frames[1].data = Some("profile_a") /\ frames[2].data = Some("profile_a")
    /\ Cardinality(DOMAIN Val(frames[1].ret).indicators) = 9
    /\ frames[2].op = "score" /\ frames[2].pc = "profile"
    /\ frames[2].username = Chars("real_user")
    /\ local_objects[LocalCell(2, "bot_indicators")] # <<>>
    /\ local_objects[LocalCell(2, "bot_indicators")] # local_objects[LocalCell(1, "bot_indicators")]

\* the keys of the indicators of each detection, sorted and joined by commas,
\* written out by hand; no string where there is no key
ExpectedIndicators(d) ==
    IF d.username = "suspected_bot" THEN Some(Chars("link_in_bio,spammy"))
    ELSE IF d.username = "spam_bot_2023"
    THEN Some(Chars("contains_urls,excessive_emojis,no_profile_pic,suspicious_username"))
    ELSE None

\* the step is a call of the method named
Called(name) == last_call'.name = name

\* C16: add_detected_bot on a database that holds no detection with the
\* comment_id given returns a new id, not None, and the row with that id has
\* the username, bot_likelihood, comment_id and post_id given, the keys of the
\* indicators sorted and joined by commas, warning_sent = 0 and
\* warning_approved = 0.
C16_AddDetectedBot ==
    [][(Called("add_detected_bot") /\ ~CommentIdTaken(last_call'.args.comment_id)) =>
          LET d == last_call'.args
              bot_id == last_call'.returned
          IN  /\ ~IsNone(bot_id)
              /\ Val(bot_id) \notin 1..Len(detected_bots)
              /\ Val(bot_id) \in 1..Len(detected_bots')
              /\ \A i \in 1..Len(detected_bots) : detected_bots'[i] = detected_bots[i]
              /\ LET row == detected_bots'[Val(bot_id)]
                 IN  /\ row.username = d.username
                     /\ row.bot_likelihood = d.bot_likelihood
                     /\ row.comment_id = d.comment_id
                     /\ row.post_id = d.post_id
                     /\ row.indicators = ExpectedIndicators(d)
                     /\ row.warning_sent = 0
                     /\ row.warning_approved = 0]_vars

\* C16 witness: the detection of the test was added as the second row, after a
\* detection of another comment: id 2, indicators 'link_in_bio,spammy', both
\* flags 0.
C16_Witness ==
    /\ last_call.name = "add_detected_bot"
    /\ last_call.args.username = "suspected_bot"
    /\ last_call.returned = Some(2)
    /\ Len(detected_bots) = 2
    /\ detected_bots[1].comment_id = Some("c124")
    /\ detected_bots[2].comment_id = Some("c123")
    /\ detected_bots[2].indicators = Some(Chars("link_in_bio,spammy"))
    /\ detected_bots[2].warning_sent = 0 /\ detected_bots[2].warning_approved = 0

\* C17: after any sequence of add_monitored_account calls the account table
\* holds exactly one row per username added, with the platform of the first
\* add; a call returns True exactly when the username was not present before;
\* a call for a username that is present returns False and leaves the table
\* unchanged, the active flag and last_checked of the account included; after
\* one add on an empty database get_monitored_accounts(active_only=False)
\* returns exactly that account.
C17_AddMonitoredAccount ==
    /\ [](\A i, j \in 1..Len(monitored_accounts) :
             monitored_accounts[i].username = monitored_accounts[j].username => i = j)
    /\ []((/\ last_call.name = "get_monitored_accounts"
           /\ ~last_call.args.active_only
           /\ Len(monitored_accounts) = 1) =>
             last_call.returned = Some(<< <<monitored_accounts[1].username,
                                            monitored_accounts[1].platform,
                                            monitored_accounts[1].last_checked>> >>))
    /\ [][/\ \A i \in 1..Len(monitored_accounts) :
                /\ i <= Len(monitored_accounts')
                /\ monitored_accounts'[i].username = monitored_accounts[i].username
                /\ monitored_accounts'[i].platform = monitored_accounts[i].platform
          /\ Called("add_monitored_account") =>
                LET u == last_call'.args.username
                    present == \E i \in 1..Len(monitored_accounts) :
                                  monitored_accounts[i].username = u
                IN  /\ last_call'.returned = Some(~present)
                    /\ present => monitored_accounts' = monitored_accounts
                    /\ ~present =>
                          /\ Len(monitored_accounts') = Len(monitored_accounts) + 1
                          /\ LET row == monitored_accounts'[Len(monitored_accounts')]
                             IN  /\ row.username = u
                                 /\ row.platform = last_call'.args.platform]_vars

\* C17 witness: the account was added for instagram, checked and disabled;
\* adding it again for twitter has returned False, and the row is as it was.
C17_Witness ==
    /\ last_call = Call("add_monitored_account",
                        [username |-> "test_account", platform |-> "twitter"], Some(FALSE))
    /\ Len(monitored_accounts) = 2
    /\ monitored_accounts[2] = [username |-> "test_account", platform |-> "instagram",
                                last_checked |-> Some("2026-01-02T10:00:00"), active |-> 0]

\* C18: add_processed_post adds a record for the post and ignores the call
\* when the post_id is there already: after the first call for a post_id the
\* table holds a row with the post_id, monitored_account and platform given
\* and check_if_post_processed(post_id) is true; a further add with that
\* post_id, whatever its url or account, leaves the table unchanged; the table
\* never holds two rows with one post_id.
C18_AddProcessedPost ==
    /\ [](\A i, j \in 1..Len(processed_posts) :
             processed_posts[i].post_id = processed_posts[j].post_id => i = j)
    /\ [](last_call.name = "check_if_post_processed" =>
             (last_call.returned = Some(TRUE)
                <=> \E i \in 1..Len(processed_posts) :
                       processed_posts[i].post_id = last_call.args.post_id))
    /\ [][Called("add_processed_post") =>
            LET a == last_call'.args
                present == \E i \in 1..Len(processed_posts) :
                              processed_posts[i].post_id = a.post_id
            IN  /\ present => processed_posts' = processed_posts
                /\ ~present =>
                      /\ Len(processed_posts') = Len(processed_posts) + 1
                      /\ \A i \in 1..Len(processed_posts) :
                            processed_posts'[i] = processed_posts[i]
                      /\ LET row == processed_posts'[Len(processed_posts')]
                         IN  /\ row.post_id = a.post_id
                             /\ row.monitored_account = a.monitored_account
                             /\ row.platform = a.platform]_vars

\* C18 witness: post 12345 was recorded for test_account; an add of the same
\* post_id with another url and account has just been ignored.
C18_Witness ==
    /\ last_call.name = "add_processed_post"
    /\ last_call.args.post_id = "12345"
    /\ last_call.args.monitored_account = "other_account"
    /\ Len(processed_posts) = 1
    /\ processed_posts[1].post_id = "12345"
    /\ processed_posts[1].post_url = "https://www.instagram.com/p/test123/"
    /\ processed_posts[1].monitored_account = "test_account"
    /\ processed_posts[1].platform = "instagram"

\* the two flags of a detection
Flags(row) == <<row.warning_sent, row.warning_approved>>

\* C19: after any sequence of approve_and_send_warning and reject_detection on
\* detections add_detected_bot created, whether the sending succeeds or fails,
\* no detection has warning_sent = 1 with warning_approved = 0: the flags are
\* (0,0), (0,1) or (1,1).
C19_NeverSentUnapproved ==
    \A i \in 1..Len(detected_bots) :
        /\ ~(detected_bots[i].warning_sent = 1 /\ detected_bots[i].warning_approved = 0)
        /\ Flags(detected_bots[i]) \in {<<0, 0>>, <<0, 1>>, <<1, 1>>}

\* C19 witness: of two detections one was approved and its warning sent, and
\* the sending for the other has just failed after approval.
C19_Witness ==
    /\ last_call.name = "approve_and_send_warning"
    /\ last_call.args.answer = "send_failed"
    /\ Len(detected_bots) = 2
    /\ Flags(detected_bots[1]) = <<1, 1>>
    /\ Flags(detected_bots[2]) = <<0, 1>>
    /\ last_call.args.bot_id = 2


TaskFinished == task_pc = "finished"
EveryAttemptFailed ==
    /\ task_attempts # <<>>
    /\ \A i \in 1..Len(task_attempts) : task_attempts[i] = "error"

\* C20: a dispatched process_instagram_post runs at most max_retries + 1 = 3
\* times; once it has finished with every attempt ended in an error other than
\* Ignore, its state is FAILURE and it has returned the result with status
\* 'Failed after retries'; an attempt that succeeds is the last one, and the
\* task has then returned the success result.
C20_TaskRetries ==
    task_name = "process_instagram_post" =>
    /\ Len(task_attempts) <= max_retries + 1
    /\ task_retries <= max_retries
    /\ TaskFinished /\ EveryAttemptFailed =>
          /\ task_state = "FAILURE"
          /\ task_result = Some(FailedResult)
    /\ \A i \in 1..Len(task_attempts) :
          task_attempts[i] = "ok" =>
              /\ i = Len(task_attempts)
              /\ TaskFinished
              /\ task_result = Some(SuccessResult)


\* the value line 117 caps, before the cap
Combined ==
    FinalScore(UserDataGiven(user_data), CommentGiven(comment_text),
               text_pattern_score, behavioral_score, profile_score)

\* C26: a returned likelihood is at most 0.76 when a comment and a profile that
\* is not verified are given, at most 0.6 when a profile alone is given and at
\* most 0.1 when neither is given; the combined score exceeds the cap 0.99, so
\* that the cap is what is returned, only when a comment is given without a
\* profile.
C26_CapOnlyCommentAlone ==
    ScoreReturned =>
        LET hasText == CommentGiven(comment_text)
            hasData == UserDataGiven(user_data)
        IN  /\ (hasText /\ hasData /\ ~VerifiedInput) => Likelihood <= 760
            /\ (~hasText /\ hasData) => Likelihood <= 600
            /\ (~hasText /\ ~hasData) => Likelihood <= 100
            /\ (~VerifiedInput /\ Combined > ScoreCap) => (hasText /\ ~hasData)

\* C26 witness: comment and profile with every signal present reach 0.76.
C26_Witness ==
    /\ ScoreReturned
    /\ CommentGiven(comment_text)
    /\ UserDataGiven(user_data)
    /\ ~VerifiedInput
    /\ text_pattern_score = 1000
    /\ behavioral_score = 600
    /\ profile_score = 600
    /\ Likelihood = 760

\* the call was given a comment and no profile
CommentOnly == CommentGiven(comment_text) /\ ~UserDataGiven(user_data)

\* what the comment alone decides: the capped sum of the three text terms
TextAlone(text) ==
    LET emoji == emoji_count_of[text]
    IN  Min(Min(100 * Len(phrase_matches_of[text]), 500)
              + (IF emoji > 5 THEN Min(50 * (emoji - 5), 200) ELSE 0)
              + (IF urls_of[text] THEN 300 ELSE 0),
            990)

\* C27: when a comment is given without a profile, the likelihood is decided by
\* the comment alone, so that it is the same for every username; a username
\* with a bot-suggestive ending still adds the indicator suspicious_username,
\* which may therefore come with likelihood 0.
C27_UsernameNotScored ==
    (ScoreReturned /\ CommentOnly) =>
        /\ Likelihood = TextAlone(Val(comment_text))
        /\ "suspicious_username" \in DOMAIN Indicators <=> suspicious_username_of[username]
        /\ profile_score = (IF suspicious_username_of[username] THEN 100 ELSE 0)

\* C27 witness: a comment without any text signal and the username
\* "follow_me_2023" return the indicator suspicious_username with likelihood 0.
C27_Witness ==
    /\ ScoreReturned
    /\ CommentOnly
    /\ username = Chars("follow_me_2023")
    /\ Indicators = ("suspicious_username" :> TRUE)
    /\ profile_score = 100
    /\ Likelihood = 0

\* the profile given is usable and carries no follower, or no follower_count
NoFollowers == UserDataGiven(user_data) /\ DictGet(Val(user_data), "follower_count", 0) = 0

\* C28: for a profile whose follower_count is 0 or absent the scorer never
\* records high_following_ratio and never adds its 0.2, however large
\* following_count is, while the test of analyze_user_activity, which divides
\* by follower_count + 1, is met by such a profile that follows more than ten.
C28_NoRatioWithoutFollowers ==
    (ProfileAnalysed /\ ~VerifiedInput /\ NoFollowers) =>
        LET d == Val(user_data)
            following == DictGet(d, "following_count", 0)
            volume == DictGet(d, "post_count", 0) > 1000
            nopic == DictGet(d, "has_profile_pic", TRUE) = FALSE
        IN  /\ "high_following_ratio" \notin DOMAIN bot_indicators
            /\ pc = "username" =>
                  profile_score = (IF volume THEN 100 ELSE 0) + (IF nopic THEN 200 ELSE 0)
            /\ pc = "done" => "high_following_ratio" \notin DOMAIN Indicators
            /\ following > 10 => ActivityHighFollowingRatio(following, 0)

\* C28 witness: a profile with follower_count 0 that follows 1001 accounts has
\* been scored without high_following_ratio, and nothing else fired.
C28_Witness ==
    /\ ScoreReturned
    /\ ~VerifiedInput
    /\ UserDataGiven(user_data)
    /\ "follower_count" \in DOMAIN Val(user_data)
    /\ Val(user_data)["follower_count"] = 0
    /\ DictGet(Val(user_data), "following_count", 0) = 1001
    /\ ActivityHighFollowingRatio(1001, 0)
    /\ DOMAIN Indicators = {}
    /\ Likelihood = 0

\* the sum of comment_count over the clusters from the i-th on
RECURSIVE CountFrom(_, _)
CountFrom(clusters, i) ==
    IF i > Len(clusters) THEN 0
    ELSE clusters[i].comment_count + CountFrom(clusters, i + 1)

\* the clusters that count the k-th input comment: those of its normalized text
ClustersOf(k) == {i \in 1..Len(Clusters) : Clusters[i].text = NormalText(k)}

\* C29: the clusters of one call have pairwise distinct normalized texts and
\* every input comment is counted in at most one of them: each cluster counts
\* the input comments of its text, the sum of comment_count is at most the
\* number of input comments and there are at most half as many clusters as
\* input comments.
C29_ClustersPartition ==
    CoordReturned =>
        /\ \A i, j \in 1..Len(Clusters) : i # j => Clusters[i].text # Clusters[j].text
        /\ \A k \in 1..Len(comments) : Cardinality(ClustersOf(k)) <= 1
        /\ \A i \in 1..Len(Clusters) :
              Clusters[i].comment_count = Cardinality(CommentsWith(Clusters[i].text))
        /\ CountFrom(Clusters, 1) <= Len(comments)
        /\ 2 * Len(Clusters) <= Len(comments)

\* C29 witness: five comments, two texts written twice each and one comment
\* alone: two clusters that count four of the five comments.
C29_Witness ==
    /\ CoordReturned
    /\ Len(comments) = 5
    /\ Len(Clusters) = 2
    /\ CountFrom(Clusters, 1) = 4
    /\ \E k \in 1..Len(comments) : ClustersOf(k) = {}

\* the detection the command approve was called for, as it was before the call
ApprovedRow == detected_bots[last_call'.args.bot_id]

\* C22: approve_and_send_warning on a detection whose warning was sent already
\* (warning_sent = 1 and warning_approved = 1), or that has no comment id, or
\* that the reviewer does not confirm, does not call post_reply_comment and
\* leaves the table detected_bots, the two flags of the detection included, as
\* it was.
C22_ApproveWithoutEffect ==
    [][(/\ Called("approve_and_send_warning")
        /\ last_call'.args.bot_id \in 1..Len(detected_bots)
        /\ \/ Flags(ApprovedRow) = <<1, 1>>
           \/ IsNone(ApprovedRow.comment_id)
           \/ last_call'.args.answer = "declined")
          => /\ last_call'.post_reply_comment = "not called"
             /\ detected_bots' = detected_bots]_vars

\* C22 witness: the warning of detection 1 was sent; approve was called for it
\* again and Instagram would have posted, and nothing was posted.
C22_Witness ==
    /\ last_call.name = "approve_and_send_warning"
    /\ last_call.args = [bot_id |-> 1, answer |-> "sent"]
    /\ last_call.post_reply_comment = "not called"
    /\ Len(detected_bots) >= 1
    /\ Flags(detected_bots[1]) = <<1, 1>>
    /\ PostIdTaken(detected_bots[1].post_id)

\* no two rows of detected_bots carry the same comment id
OneRowPerComment ==
    \A i, j \in 1..Len(detected_bots) :
        (/\ ~IsNone(detected_bots[i].comment_id)
         /\ detected_bots[i].comment_id = detected_bots[j].comment_id) => i = j

\* C24: however often and in whatever order detections of the same comments
\* are added again, detected_bots holds at most one row per comment id; an
\* add_detected_bot for a comment id that is stored already returns None and
\* leaves the table as it was, warning_sent and warning_approved of the stored
\* row included.
C24_OneRowPerComment ==
    /\ []OneRowPerComment
    /\ [][(Called("add_detected_bot") /\ CommentIdTaken(last_call'.args.comment_id)) =>
             /\ last_call'.returned = None
             /\ detected_bots' = detected_bots]_vars

\* C24 witness: the warning for the comment c123 was approved and sent; the
\* comment was analysed again and the add returned None; the row is the one of
\* the first add and its flags are still 1.
C24_Witness ==
    /\ last_call.name = "add_detected_bot"
    /\ last_call.args.comment_id = Some("c123")
    /\ last_call.args.username = "other_user"
    /\ last_call.returned = None
    /\ Len(detected_bots) = 1
    /\ detected_bots[1].username = "suspected_bot"
    /\ detected_bots[1].comment_id = Some("c123")
    /\ Flags(detected_bots[1]) = <<1, 1>>

\* the running task found the platform not authenticated (lines 94 and 158)
NotAuthenticated == task_platform = Some([is_authenticated |-> FALSE])

-----------------------------------------------------------------------------
(* The commenter's profile in the monitoring pipeline *)

\* mutant of get_user_info_keys: the number of posts under the key the scorer reads
get_user_info_keys_post_count ==
    {"platform", "username", "user_id", "full_name", "follower_count",
     "following_count", "post_count", "is_verified", "is_private", "bio",
     "has_profile_pic", "url"}

\* instagram.py lines 69-82: the keys of the dict get_user_info returns
get_user_info_keys ==
    {"platform", "username", "user_id", "full_name", "follower_count",
     "following_count", "media_count", "is_verified", "is_private", "bio",
     "has_profile_pic", "url"}

\* indicators.py lines 63-94: the keys calculate_bot_likelihood reads from user_data
ScorerKeys ==
    {"is_verified", "posting_regularity", "avg_engagement_rate", "follower_count",
     "following_count", "post_count", "has_profile_pic"}

\* d holds, of the keys the scorer reads, those get_user_info sets
FetchedProfile(d) == DOMAIN d = get_user_info_keys \cap ScorerKeys

\* monitor.py lines 116-123, tasks.py lines 41-44: the scorer was called with
\* what get_user_info returned for the commenter, a dict or None
PipelineCall ==
    /\ ScoreReturned
    /\ IsNone(user_data) \/ FetchedProfile(Val(user_data))

\* C23: in the monitoring pipeline a commenter whose profile get_user_info
\* fetched is scored at most 0.4 * 1.0 + 0.2 * 0.5 = 0.5, below both default
\* thresholds (0.6 in check_for_new_posts, 0.65 in the task), so no detection
\* is stored for them; a detection is stored only for a commenter whose
\* profile fetch returned None.
C23_FetchedProfileNeverDetected ==
    PipelineCall =>
        /\ ~IsNone(user_data) =>
              /\ Likelihood <= 500
              /\ ~BotDetected(Likelihood, bot_threshold)
              /\ ~BotDetected(Likelihood, DEFAULT_BOT_THRESHOLD_TASK)
        /\ (\/ BotDetected(Likelihood, bot_threshold)
            \/ BotDetected(Likelihood, DEFAULT_BOT_THRESHOLD_TASK)) => IsNone(user_data)

\* C23 witness: a fetched profile with every signal it can carry (ratio above
\* 10, no picture, suspicious username) under a comment with every text signal
\* is scored exactly 0.5.
C23_Witness ==
    /\ PipelineCall
    /\ ~IsNone(user_data)
    /\ text_pattern_score = 1000
    /\ profile_score = 500
    /\ behavioral_score = 0
    /\ Likelihood = 500

-----------------------------------------------------------------------------
(* The posts of the detections *)

\* manager.py lines 299-320, get_pending_bots: the detections not approved
\* and not sent, joined with their posts (by id of the detection)
GetPendingBots ==
    {i \in 1..Len(detected_bots) :
        /\ detected_bots[i].warning_approved = 0
        /\ detected_bots[i].warning_sent = 0
        /\ PostIdTaken(detected_bots[i].post_id)}

====
